---- MODULE Spec2Model ----
(***************************************************************************)
(* Modules and top-level bindings (src/module.c).                          *)
(*                                                                         *)
(* A binding cell is identified by the pair <<module, name>> of the table  *)
(* slot that holds it (the pair is also the cell's globalref).  A module's *)
(* binding table is the set of its cells that are not HT_NOTFOUND.         *)
(* Values are pairs <<type, payload>>; NULL is the empty tuple.            *)
(***************************************************************************)
EXTENDS Integers, Sequences, FiniteSets, TLC

\* ---------------------------------------------------------------- domains
jl_core_module == "Core"
Modules == {"Core", "A", "U"}
\* the names operations are called with
Vars == {"x"}
\* a name that starts with '#'
HiddenNames == {"#h"}
\* every interned symbol: the variables, the modules' own names and the
\* hidden name
Names == Vars \cup Modules \cup HiddenNames
Cells == Modules \X Names

NULL == <<>>
\* the null jl_module_t pointer
NULLMOD == "NULL"
HT_NOTFOUND == [notfound |-> TRUE]

jl_any_type == <<"DataType", "Any">>
jl_nothing == <<"Nothing", "nothing">>
ModuleValue(m) == <<"Module", m>>
\* the values set_global is called with, and those set_const is called with
GlobalVals == {<<"Int64", "1">>}
ConstVals == {<<"Int64", "1">>, <<"DataType", "Int64">>}
\* the inputs where the using search is studied: the values of set_global and
\* of set_const, and the modules module_using is called on
UGlobalVals == {<<"Int64", "1">>}
UConstVals == {<<"Int64", "1">>, jl_nothing}
UsingTo == {"Core", "U"}

jl_typeof(v) == <<"DataType", v[1]>>
jl_is_type(v) == v[1] = "DataType"
jl_is_module(v) == v[1] = "Module"
jl_egal(a, b) == a = b
\* nominal subtype test of the declared-type check
jl_isa(v, ty) == ty = jl_any_type \/ jl_typeof(v) = ty

\* deepest nesting of jl_resolve_owner frames the model follows
MaxDepth == 4

VARIABLES
    bindings,   \* [Cells -> binding record or HT_NOTFOUND]: every module's table
    usings,     \* [Modules -> Seq(Modules)]: m->usings, most recent last
    nwarn,      \* [Modules \X Vars -> 0..2]: "must be qualified" warnings printed
    pinned,     \* the binding a using search returned for a cell, while only
                \* module_using, module_export and get_binding followed
    locks,      \* [Modules -> [by, n]]: the thread holding m->lock and how often
    stack,      \* [Threads -> Seq(frame)]: each thread's calls in progress
    options,    \* [OModules -> the module's nospecialize, optlevel, compile,
                \* infer and max_methods fields]
    build       \* the clock, the static mcounter of jl_new_module_, the
                \* build_id.lo given out, and each thread's place in line 26

vars == <<bindings, usings, nwarn, pinned, locks, stack, options, build>>

\* ---------------------------------------------------------------- bindings
new_binding ==
    [value |-> NULL, owner |-> NULL, ty |-> NULL, constp |-> FALSE,
     exportp |-> FALSE, imported |-> FALSE, deprecated |-> 0]

\* the evaluation context threaded through one operation
\* S: the tables, lk: how often the calling thread holds each module's lock,
\* warn: the warnings printed, fail: the assertions that failed, err: the error
\* raised, cyc: whether the cycle detector cut a recursion, bare: the cells
\* whose owner, constp, exportp, imported or deprecated field was written, or
\* that were inserted, while the thread did not hold the lock of their module
NewCtx(S) ==
    [S |-> S, lk |-> [m \in Modules |-> 0], warn |-> {}, fail |-> {}, err |-> "",
     cyc |-> FALSE, bare |-> {}]
JL_LOCK(C, m) == [C EXCEPT !.lk[m] = @ + 1]
JL_UNLOCK(C, m) ==
    IF C.lk[m] > 0 THEN [C EXCEPT !.lk[m] = @ - 1]
    ELSE [C EXCEPT !.fail = @ \cup {"unlock of a lock not held"}]
Warn(C, kind, m, var) == [C EXCEPT !.warn = @ \cup {<<kind, m, var>>}]
Check(C, cond, what) == IF cond THEN C ELSE [C EXCEPT !.fail = @ \cup {what}]
Raise(C, kind) == [C EXCEPT !.err = kind]
LockedFields == {"owner", "constp", "exportp", "imported", "deprecated"}
Put(C, c, rec) ==
    [C EXCEPT !.S[c] = rec,
              !.bare = IF /\ C.lk[c[1]] = 0
                          /\ \/ C.S[c] = HT_NOTFOUND
                             \/ \E f \in LockedFields : C.S[c][f] # rec[f]
                       THEN @ \cup {c} ELSE @]

jl_get_module_binding(S, m, var) ==
    IF S[<<m, var>>] = HT_NOTFOUND THEN NULL ELSE <<m, var>>

\* get_binding_wr_locked handing out an imported cell for writing
get_binding_wr_locked_no_raise(C, m, var, alloc) ==
    LET c == <<m, var>>
        b == C.S[c]
    IN  IF b # HT_NOTFOUND
        THEN IF b.owner # c
             THEN IF b.owner = NULL
                  THEN [b |-> c, C |-> Put(C, c, [b EXCEPT !.owner = c])]
                  ELSE [b |-> c, C |-> C]
             ELSE [b |-> c, C |-> C]
        ELSE IF alloc
             THEN [b |-> c, C |-> Put(C, c, [new_binding EXCEPT !.owner = c])]
             ELSE [b |-> NULL, C |-> C]

\* get_binding_wr_locked raising on an imported cell whatever alloc is
get_binding_wr_locked_always_raise(C, m, var, alloc) ==
    LET c == <<m, var>>
        b == C.S[c]
    IN  IF b # HT_NOTFOUND
        THEN IF b.owner # c
             THEN IF b.owner = NULL
                  THEN [b |-> c, C |-> Put(C, c, [b EXCEPT !.owner = c])]
                  ELSE [b |-> NULL, C |-> Raise(C, "CannotAssignImported")]
             ELSE [b |-> c, C |-> C]
        ELSE IF alloc
             THEN [b |-> c, C |-> Put(C, c, [new_binding EXCEPT !.owner = c])]
             ELSE [b |-> NULL, C |-> C]

\* the body of jl_get_binding_wr between JL_LOCK and its two JL_UNLOCKs
get_binding_wr_locked(C, m, var, alloc) ==
    LET c == <<m, var>>
        b == C.S[c]
    IN  IF b # HT_NOTFOUND
        THEN IF b.owner # c
             THEN IF b.owner = NULL
                  THEN [b |-> c, C |-> Put(C, c, [b EXCEPT !.owner = c])]
                  ELSE IF alloc
                       THEN [b |-> NULL, C |-> Raise(C, "CannotAssignImported")]
                       ELSE [b |-> c, C |-> C]
             ELSE [b |-> c, C |-> C]
        ELSE IF alloc
             THEN [b |-> c, C |-> Put(C, c, [new_binding EXCEPT !.owner = c])]
             ELSE [b |-> NULL, C |-> C]

jl_get_binding_wr(C, m, var, alloc) ==
    LET r == get_binding_wr_locked(JL_LOCK(C, m), m, var, alloc)
    IN  [b |-> r.b, C |-> JL_UNLOCK(r.C, m)]

\* eq_bindings without the rule for constants bound to the identical value
eq_bindings_no_const(S, a, b) ==
    \/ a = b
    \/ S[a].owner = S[b].owner

eq_bindings(S, a, b) ==
    \/ a = b
    \/ S[a].owner = S[b].owner
    \/ /\ S[a].constp /\ S[b].constp
       /\ S[a].value # NULL
       /\ S[b].value = S[a].value

\* process-wide handles and options the code consults
jl_main_module == "U"
jl_base_module == "Base"
JL_OPTIONS_DEPWARN_OFF == "off"
jl_options_depwarn == JL_OPTIONS_DEPWARN_OFF

\* module_import_locked without the test for a cell imported from elsewhere
module_import_locked_no_conflict(C, to, from, b, asname, s, explici) ==
    LET c == <<to, asname>>
        bto == C.S[c]
        bd == C.S[b]
    IN  IF bto # HT_NOTFOUND
        THEN IF c = b
             THEN JL_UNLOCK(C, to)
             ELSE IF eq_bindings(C.S, c, b)
             THEN JL_UNLOCK(Put(C, c, [bto EXCEPT !.imported = explici]), to)
             ELSE IF bto.constp \/ bto.value # NULL
             THEN Warn(JL_UNLOCK(Check(C, bto.owner = c, "assert582"), to),
                       "conflicts with an existing identifier", to, asname)
             ELSE JL_UNLOCK(Put(C, c, [bto EXCEPT !.owner = bd.owner,
                                                  !.imported = explici]), to)
        ELSE JL_UNLOCK(Put(C, c, [new_binding EXCEPT !.owner = b, !.imported = explici,
                                                     !.deprecated = bd.deprecated]), to)

\* module_import_locked without the test for a name the destination owns
module_import_locked_overwrite(C, to, from, b, asname, s, explici) ==
    LET c == <<to, asname>>
        bto == C.S[c]
        bd == C.S[b]
    IN  IF bto # HT_NOTFOUND
        THEN IF c = b
             THEN JL_UNLOCK(C, to)
             ELSE IF eq_bindings(C.S, c, b)
             THEN JL_UNLOCK(Put(C, c, [bto EXCEPT !.imported = explici]), to)
             ELSE IF bto.owner # b /\ bto.owner # NULL /\ bto.owner # c
             THEN Warn(JL_UNLOCK(C, to), "ignoring conflicting import", to, asname)
             ELSE JL_UNLOCK(Put(C, c, [bto EXCEPT !.owner = bd.owner,
                                                  !.imported = explici]), to)
        ELSE JL_UNLOCK(Put(C, c, [new_binding EXCEPT !.owner = b, !.imported = explici,
                                                     !.deprecated = bd.deprecated]), to)

\* module_import_ from JL_LOCK(&to->lock) on, b not NULL
module_import_locked(C, to, from, b, asname, s, explici) ==
    LET c == <<to, asname>>
        bto == C.S[c]
        bd == C.S[b]
    IN  IF bto # HT_NOTFOUND
        THEN IF c = b
             THEN JL_UNLOCK(C, to)
             ELSE IF eq_bindings(C.S, c, b)
             THEN JL_UNLOCK(Put(C, c, [bto EXCEPT !.imported = explici]), to)
             ELSE IF bto.owner # b /\ bto.owner # NULL
             THEN Warn(JL_UNLOCK(C, to), "ignoring conflicting import", to, asname)
             ELSE IF bto.constp \/ bto.value # NULL
             THEN Warn(JL_UNLOCK(Check(C, bto.owner = c, "assert582"), to),
                       "conflicts with an existing identifier", to, asname)
             ELSE JL_UNLOCK(Put(C, c, [bto EXCEPT !.owner = bd.owner,
                                                  !.imported = explici]), to)
        ELSE JL_UNLOCK(Put(C, c, [new_binding EXCEPT !.owner = b, !.imported = explici,
                                                     !.deprecated = bd.deprecated]), to)

\* module_import_ skipping every deprecated binding
module_import_skip_deprecated(C, to, from, b, asname, s, explici) ==
    IF b = NULL
    THEN Warn(C, "could not import", to, asname)
    ELSE
      LET C0 == Check(C, C.S[b].owner = b, "assert538")
          bd == C0.S[b]
      IN  IF bd.deprecated # 0
          THEN C0
          ELSE module_import_locked(JL_LOCK(C0, to), to, from, b, asname, s, explici)

module_import_(C, to, from, b, asname, s, explici) ==
    IF b = NULL
    THEN Warn(C, "could not import", to, asname)
    ELSE
      LET C0 == Check(C, C.S[b].owner = b, "assert538")
          bd == C0.S[b]
      IN  IF bd.deprecated # 0 /\ bd.value = jl_nothing
          THEN C0
          ELSE IF /\ bd.deprecated # 0
                  /\ to # jl_main_module /\ to # jl_base_module
                  /\ jl_options_depwarn # JL_OPTIONS_DEPWARN_OFF
          THEN module_import_locked(
                   JL_LOCK(Warn(C0, "importing deprecated binding", to, asname), to),
                   to, from, b, asname, s, explici)
          ELSE module_import_locked(JL_LOCK(C0, to), to, from, b, asname, s, explici)

Frames(st) == {st[k] : k \in 1..Len(st)}

\* the walk over the modstack_t list never finding the frame
on_stack_never(st, m, var) == FALSE

\* the walk over the modstack_t list in jl_resolve_owner
on_stack(st, m, var) == <<m, var>> \in Frames(st)

RECURSIVE jl_resolve_owner(_, _, _, _)
RECURSIVE using_resolve_binding(_, _, _, _, _, _, _, _)

\* jl_resolve_owner called with b == NULL; st is the modstack, oldest frame first
jl_resolve_owner(C, m, var, st) ==
    LET c0 == jl_get_module_binding(C.S, m, var)
        b == IF c0 # NULL THEN C.S[c0].owner ELSE NULL
    IN  IF b = NULL
        THEN IF on_stack(st, m, var)
             THEN [b |-> NULL, C |-> [C EXCEPT !.cyc = TRUE]]
             ELSE IF Len(st) >= MaxDepth
             THEN [b |-> NULL, C |-> Raise(C, "Diverged")]
             ELSE LET r == using_resolve_binding(JL_LOCK(C, m), m, var,
                                                 Append(st, <<m, var>>),
                                                 TRUE, Len(usings[m]), NULL, NULLMOD)
                      C1 == JL_UNLOCK(r.C, m)
                  IN  IF r.C.err # ""
                      THEN [b |-> NULL, C |-> r.C]
                      ELSE IF r.b # NULL
                      THEN [b |-> r.b,
                            C |-> module_import_(
                                    Check(C1, C1.S[r.b].owner = r.b /\ r.from # NULLMOD,
                                          "assert384"),
                                    m, r.from, r.b, var, var, FALSE)]
                      ELSE [b |-> NULL, C |-> C1]
        ELSE [b |-> b, C |-> Check(C, C.S[b].owner = b, "assert390")]

\* the loop of using_resolve_binding taking every later candidate, deprecated
\* or not
using_resolve_binding_always_replace(C, m, var, st, warn, i, b, owner) ==
    IF i = 0
    THEN [b |-> b, from |-> owner, C |-> C]
    ELSE
      LET imp == usings[m][i]
          tempb0 == jl_get_module_binding(C.S, imp, var)
      IN  IF tempb0 # NULL /\ C.S[tempb0].exportp
          THEN
            LET r == jl_resolve_owner(C, imp, var, st)
                tempb == r.b
                C1 == Check(r.C, r.C.S[tempb].owner = tempb, "assert330")
            IN  IF r.C.err # ""
                THEN [b |-> NULL, from |-> NULLMOD, C |-> r.C]
                ELSE IF tempb = NULL
                THEN using_resolve_binding(r.C, m, var, st, warn, i - 1, b, owner)
                ELSE IF /\ b # NULL
                        /\ C1.S[tempb].deprecated = 0
                        /\ C1.S[b].deprecated = 0
                        /\ ~eq_bindings(C1.S, tempb, b)
                THEN IF warn
                     THEN LET w == jl_get_binding_wr(C1, m, var, TRUE)
                          IN  [b |-> NULL, from |-> NULLMOD,
                               C |-> IF w.C.err # "" THEN w.C
                                     ELSE JL_LOCK(Warn(JL_UNLOCK(w.C, m),
                                                       "must be qualified", m, var), m)]
                     ELSE [b |-> NULL, from |-> NULLMOD, C |-> C1]
                ELSE using_resolve_binding(C1, m, var, st, warn, i - 1, tempb, imp)
          ELSE using_resolve_binding(C, m, var, st, warn, i - 1, b, owner)

\* the loop of using_resolve_binding keeping the first candidate it holds
\* unless that one is deprecated
using_resolve_binding_keep_first(C, m, var, st, warn, i, b, owner) ==
    IF i = 0
    THEN [b |-> b, from |-> owner, C |-> C]
    ELSE
      LET imp == usings[m][i]
          tempb0 == jl_get_module_binding(C.S, imp, var)
      IN  IF tempb0 # NULL /\ C.S[tempb0].exportp
          THEN
            LET r == jl_resolve_owner(C, imp, var, st)
                tempb == r.b
                C1 == Check(r.C, r.C.S[tempb].owner = tempb, "assert330")
            IN  IF r.C.err # ""
                THEN [b |-> NULL, from |-> NULLMOD, C |-> r.C]
                ELSE IF tempb = NULL
                THEN using_resolve_binding(r.C, m, var, st, warn, i - 1, b, owner)
                ELSE IF /\ b # NULL
                        /\ C1.S[tempb].deprecated = 0
                        /\ C1.S[b].deprecated = 0
                        /\ ~eq_bindings(C1.S, tempb, b)
                THEN IF warn
                     THEN LET w == jl_get_binding_wr(C1, m, var, TRUE)
                          IN  [b |-> NULL, from |-> NULLMOD,
                               C |-> IF w.C.err # "" THEN w.C
                                     ELSE JL_LOCK(Warn(JL_UNLOCK(w.C, m),
                                                       "must be qualified", m, var), m)]
                     ELSE [b |-> NULL, from |-> NULLMOD, C |-> C1]
                ELSE IF owner = NULLMOD \/ C1.S[b].deprecated # 0
                THEN using_resolve_binding(C1, m, var, st, warn, i - 1, tempb, imp)
                ELSE using_resolve_binding(C1, m, var, st, warn, i - 1, b, owner)
          ELSE using_resolve_binding(C, m, var, st, warn, i - 1, b, owner)

\* the loop of using_resolve_binding, about to visit m->usings.items[i-1],
\* holding the candidate b found in module owner
\* the ambiguity branch printing its warning without marking the binding
using_resolve_binding_no_mark(C, m, var, st, warn, i, b, owner) ==
    IF i = 0
    THEN [b |-> b, from |-> owner, C |-> C]
    ELSE
      LET imp == usings[m][i]
          tempb0 == jl_get_module_binding(C.S, imp, var)
      IN  IF tempb0 # NULL /\ C.S[tempb0].exportp
          THEN
            LET r == jl_resolve_owner(C, imp, var, st)
                tempb == r.b
                C1 == Check(r.C, r.C.S[tempb].owner = tempb, "assert330")
            IN  IF r.C.err # ""
                THEN [b |-> NULL, from |-> NULLMOD, C |-> r.C]
                ELSE IF tempb = NULL
                THEN using_resolve_binding(r.C, m, var, st, warn, i - 1, b, owner)
                ELSE IF /\ b # NULL
                        /\ C1.S[tempb].deprecated = 0
                        /\ C1.S[b].deprecated = 0
                        /\ ~eq_bindings(C1.S, tempb, b)
                THEN IF warn
                     THEN [b |-> NULL, from |-> NULLMOD,
                           C |-> JL_LOCK(Warn(JL_UNLOCK(C1, m),
                                              "must be qualified", m, var), m)]
                     ELSE [b |-> NULL, from |-> NULLMOD, C |-> C1]
                ELSE IF owner = NULLMOD \/ C1.S[tempb].deprecated = 0
                THEN using_resolve_binding(C1, m, var, st, warn, i - 1, tempb, imp)
                ELSE using_resolve_binding(C1, m, var, st, warn, i - 1, b, owner)
          ELSE using_resolve_binding(C, m, var, st, warn, i - 1, b, owner)
using_resolve_binding(C, m, var, st, warn, i, b, owner) ==
    IF i = 0
    THEN [b |-> b, from |-> owner, C |-> C]
    ELSE
      LET imp == usings[m][i]
          tempb0 == jl_get_module_binding(C.S, imp, var)
      IN  IF tempb0 # NULL /\ C.S[tempb0].exportp
          THEN
            LET r == jl_resolve_owner(C, imp, var, st)
                tempb == r.b
                C1 == Check(r.C, r.C.S[tempb].owner = tempb, "assert330")
            IN  IF r.C.err # ""
                THEN [b |-> NULL, from |-> NULLMOD, C |-> r.C]
                ELSE IF tempb = NULL
                THEN using_resolve_binding(r.C, m, var, st, warn, i - 1, b, owner)
                ELSE IF /\ b # NULL
                        /\ C1.S[tempb].deprecated = 0
                        /\ C1.S[b].deprecated = 0
                        /\ ~eq_bindings(C1.S, tempb, b)
                THEN IF warn
                     THEN LET w == jl_get_binding_wr(C1, m, var, TRUE)
                          IN  [b |-> NULL, from |-> NULLMOD,
                               C |-> IF w.C.err # "" THEN w.C
                                     ELSE JL_LOCK(Warn(JL_UNLOCK(w.C, m),
                                                       "must be qualified", m, var), m)]
                     ELSE [b |-> NULL, from |-> NULLMOD, C |-> C1]
                ELSE IF owner = NULLMOD \/ C1.S[tempb].deprecated = 0
                THEN using_resolve_binding(C1, m, var, st, warn, i - 1, tempb, imp)
                ELSE using_resolve_binding(C1, m, var, st, warn, i - 1, b, owner)
          ELSE using_resolve_binding(C, m, var, st, warn, i - 1, b, owner)

jl_get_binding(C, m, var) == jl_resolve_owner(C, m, var, <<>>)

\* the search runs with st == NULL and warn == 0; the return of NULL at line
\* 410 leaves m->lock held
jl_binding_owner(C, m, var) ==
    LET C0 == JL_LOCK(C, m)
        b == C0.S[<<m, var>>]
    IN  IF b = HT_NOTFOUND \/ b.owner = NULL
        THEN LET r == using_resolve_binding(C0, m, var, <<>>, FALSE, Len(usings[m]),
                                            NULL, NULLMOD)
             IN  IF r.b = NULL \/ r.C.err # ""
                 THEN [b |-> NULL, C |-> r.C]
                 ELSE [b |-> r.b, C |-> JL_UNLOCK(r.C, m)]
        ELSE [b |-> b.owner, C |-> JL_UNLOCK(C0, m)]

\* ub is what jl_is_type(NULL) yields, read only when b2 has no value
jl_get_binding_for_method_def(C, m, var, ub) ==
    LET c == <<m, var>>
        C0 == JL_LOCK(C, m)
        b == C0.S[c]
    IN  IF b # HT_NOTFOUND
        THEN LET b2 == b.owner
                 C1 == JL_UNLOCK(C0, m)
             IN  IF b2 # c
                 THEN IF b2 = NULL
                      THEN [b |-> c, C |-> Put(C1, c, [b EXCEPT !.owner = c])]
                      ELSE LET v2 == C1.S[b2].value
                               C2 == Check(C1, v2 # NULL, "assert262")
                               istype == IF v2 = NULL THEN ub ELSE jl_is_type(v2)
                           IN  IF ~b.imported /\ (~C2.S[b2].constp \/ ~istype)
                               THEN [b |-> NULL, C |-> Raise(C2, "MustExplicitlyImport")]
                               ELSE [b |-> b2, C |-> C2]
                 ELSE [b |-> c, C |-> C1]
        ELSE [b |-> c, C |-> JL_UNLOCK(Put(C0, c, [new_binding EXCEPT !.owner = c]), m)]

\* jl_checked_assignment letting a module constant be rebound with a warning
jl_checked_assignment_no_module_test(C, b, mod, var, rhs) ==
    LET bd == C.S[b]
        old_ty == bd.ty
        C1 == IF old_ty = NULL THEN Put(C, b, [bd EXCEPT !.ty = jl_any_type]) ELSE C
        store == Put(C1, b, [C1.S[b] EXCEPT !.value = rhs])
    IN  IF old_ty # NULL /\ old_ty # jl_any_type /\ jl_typeof(rhs) # old_ty
           /\ ~jl_isa(rhs, old_ty)
        THEN Raise(C1, "TypeMismatch")
        ELSE IF bd.constp
        THEN IF bd.value = NULL
             THEN store
             ELSE IF jl_egal(rhs, bd.value)
             THEN C1
             ELSE IF jl_typeof(rhs) # jl_typeof(bd.value) \/ jl_is_type(rhs)
             THEN Raise(C1, "ConstantRedefinition")
             ELSE Warn(store, "redefinition of constant", mod, var)
        ELSE store

jl_checked_assignment(C, b, mod, var, rhs) ==
    LET bd == C.S[b]
        old_ty == bd.ty
        C1 == IF old_ty = NULL THEN Put(C, b, [bd EXCEPT !.ty = jl_any_type]) ELSE C
        store == Put(C1, b, [C1.S[b] EXCEPT !.value = rhs])
    IN  IF old_ty # NULL /\ old_ty # jl_any_type /\ jl_typeof(rhs) # old_ty
           /\ ~jl_isa(rhs, old_ty)
        THEN Raise(C1, "TypeMismatch")
        ELSE IF bd.constp
        THEN IF bd.value = NULL
             THEN store
             ELSE IF jl_egal(rhs, bd.value)
             THEN C1
             ELSE IF jl_typeof(rhs) # jl_typeof(bd.value) \/ jl_is_type(rhs)
                     \/ jl_is_module(rhs)
             THEN Raise(C1, "ConstantRedefinition")
             ELSE Warn(store, "redefinition of constant", mod, var)
        ELSE store

jl_set_global(C, m, var, val) ==
    LET w == jl_get_binding_wr(C, m, var, TRUE)
    IN  IF w.C.err # "" THEN w.C ELSE jl_checked_assignment(w.C, w.b, m, var, val)

\* jl_set_const accepting a value equal to the one already bound
jl_set_const_same_value(C, m, var, val) ==
    LET w == jl_get_binding_wr(C, m, var, TRUE)
        bp == w.b
        bd == w.C.S[bp]
        C1 == Put(w.C, bp, [bd EXCEPT !.ty = IF @ = NULL THEN jl_any_type ELSE @,
                                      !.constp = TRUE])
    IN  IF w.C.err # "" THEN w.C
        ELSE IF bd.value = NULL
        THEN IF ~bd.constp
             THEN Put(C1, bp, [C1.S[bp] EXCEPT !.value = val])
             ELSE Raise(C1, "ConstantRedefinition")
        ELSE IF jl_egal(val, bd.value) THEN w.C
        ELSE Raise(w.C, "ConstantRedefinition")

jl_set_const(C, m, var, val) ==
    LET w == jl_get_binding_wr(C, m, var, TRUE)
        bp == w.b
        bd == w.C.S[bp]
        C1 == Put(w.C, bp, [bd EXCEPT !.ty = IF @ = NULL THEN jl_any_type ELSE @,
                                      !.constp = TRUE])
    IN  IF w.C.err # "" THEN w.C
        ELSE IF bd.value = NULL
        THEN IF ~bd.constp
             THEN Put(C1, bp, [C1.S[bp] EXCEPT !.value = val])
             ELSE Raise(C1, "ConstantRedefinition")
        ELSE Raise(w.C, "ConstantRedefinition")

\* jl_declare_constant accepting a binding another module owns
jl_declare_constant_any_owner(C, b, mod, var) ==
    IF C.S[b].value # NULL /\ ~C.S[b].constp
    THEN Raise(C, "ConstantRedeclaration")
    ELSE Put(C, b, [C.S[b] EXCEPT !.constp = TRUE])

jl_declare_constant(C, b, mod, var) ==
    IF C.S[b].owner # b \/ (C.S[b].value # NULL /\ ~C.S[b].constp)
    THEN Raise(C, "ConstantRedeclaration")
    ELSE Put(C, b, [C.S[b] EXCEPT !.constp = TRUE])

JL_OPTIONS_DEPWARN_ERROR == "error"

\* the deprecation message lookup of jl_binding_dep_message only prints
jl_binding_deprecation_warning(C, m, s, b) ==
    IF C.S[b].deprecated = 1 /\ jl_options_depwarn # JL_OPTIONS_DEPWARN_OFF
    THEN LET C1 == Warn(Check(C, C.S[b].owner = b, "assert815"), "is deprecated", m, s)
         IN  IF jl_options_depwarn = JL_OPTIONS_DEPWARN_ERROR
             THEN Raise(C1, "DeprecatedBindingUse")
             ELSE C1
    ELSE C

jl_get_global(C, m, var) ==
    LET r == jl_get_binding(C, m, var)
    IN  IF r.b = NULL \/ r.C.err # "" THEN [v |-> NULL, C |-> r.C]
        ELSE [v |-> r.C.S[r.b].value,
              C |-> IF r.C.S[r.b].deprecated # 0
                    THEN jl_binding_deprecation_warning(r.C, m, var, r.b)
                    ELSE r.C]

jl_deprecate_binding(C, m, var, flag) ==
    LET r == jl_get_binding(C, m, var)
    IN  IF r.C.err = "" /\ r.b # NULL
        THEN Put(r.C, r.b, [r.C.S[r.b] EXCEPT !.deprecated = flag])
        ELSE r.C

jl_module_export(C, from, s) ==
    LET c == <<from, s>>
        C0 == JL_LOCK(C, from)
        b == IF C0.S[c] = HT_NOTFOUND THEN new_binding ELSE C0.S[c]
    IN  JL_UNLOCK(Put(C0, c, [b EXCEPT !.exportp = TRUE]), from)

\* jl_symbol_name(asname)[0] == '#'
hidden(asname) == asname \in HiddenNames

jl_module_names_show_hidden(C, m, all, imported) ==
    LET C0 == JL_LOCK(C, m)
    IN  [a |-> {asname \in Names :
                  /\ C0.S[<<m, asname>>] # HT_NOTFOUND
                  /\ LET b == C0.S[<<m, asname>>]
                     IN  /\ \/ b.exportp
                            \/ imported /\ b.imported
                            \/ /\ b.owner = <<m, asname>>
                               /\ ~b.imported
                               /\ (all \/ m = jl_main_module)
                         /\ (all \/ b.deprecated = 0)},
         C |-> JL_UNLOCK(C0, m)]

\* the array of names as a set: a table holds a name once
jl_module_names(C, m, all, imported) ==
    LET C0 == JL_LOCK(C, m)
    IN  [a |-> {asname \in Names :
                  /\ C0.S[<<m, asname>>] # HT_NOTFOUND
                  /\ LET b == C0.S[<<m, asname>>]
                     IN  /\ \/ b.exportp
                            \/ imported /\ b.imported
                            \/ /\ b.owner = <<m, asname>>
                               /\ ~b.imported
                               /\ (all \/ m = jl_main_module)
                         /\ (all \/ (b.deprecated = 0 /\ ~hidden(asname)))},
         C |-> JL_UNLOCK(C0, m)]

jl_binding_resolved_p(S, m, var) ==
    LET b == jl_get_module_binding(S, m, var)
    IN  b # NULL /\ S[b].owner # NULL

jl_clear_implicit_imports_keep_unowned(C, m) ==
    LET C0 == JL_LOCK(C, m)
    IN  JL_UNLOCK([C0 EXCEPT !.S = [c \in Cells |->
            IF c[1] = m /\ C0.S[c] # HT_NOTFOUND /\ C0.S[c].owner # c
               /\ C0.S[c].owner # NULL /\ ~C0.S[c].imported
            THEN HT_NOTFOUND ELSE C0.S[c]]], m)

jl_clear_implicit_imports(C, m) ==
    LET C0 == JL_LOCK(C, m)
    IN  JL_UNLOCK([C0 EXCEPT !.S = [c \in Cells |->
            IF c[1] = m /\ C0.S[c] # HT_NOTFOUND /\ C0.S[c].owner # c
               /\ ~C0.S[c].imported
            THEN HT_NOTFOUND ELSE C0.S[c]]], m)

\* the exported names of from that the scan of jl_module_using compares
using_scanned(C, to, from) ==
    {var \in Names :
        /\ C.S[<<from, var>>] # HT_NOTFOUND
        /\ C.S[<<from, var>>].exportp
        /\ (C.S[<<from, var>>].owner = <<from, var>> \/ C.S[<<from, var>>].imported)
        /\ C.S[<<to, var>>] # HT_NOTFOUND
        /\ C.S[<<to, var>>].owner # NULL
        /\ var # to}

InUsings(us, from) == \E i \in 1..Len(us) : us[i] = from

\* returns the context and the new to->usings
jl_module_using(C, to, from) ==
    IF to = from
    THEN [C |-> C, us |-> usings[to]]
    ELSE IF InUsings(usings[to], from)
    THEN [C |-> JL_UNLOCK(JL_LOCK(C, to), to), us |-> usings[to]]
    ELSE LET C0 == JL_LOCK(JL_LOCK(C, to), from)
             scanned == using_scanned(C0, to, from)
             tob(var) == jl_get_binding(C0, to, var)
             C1 == [C0 EXCEPT
                      !.warn = @ \cup {<<"using conflicts", to, var>> : var \in
                          {v \in scanned : ~eq_bindings(C0.S, tob(v).b, <<from, v>>)}},
                      !.fail = @ \cup UNION {tob(v).C.fail : v \in scanned}]
         IN  [C |-> JL_UNLOCK(JL_UNLOCK(C1, from), to), us |-> Append(usings[to], from)]

\* ---------------------------------------------------------------- state
\* jl_new_module(name, NULL): Core first, then the others with jl_core_module set
InitBindings ==
    [c \in Cells |->
        IF c[2] = c[1]
        THEN [value |-> ModuleValue(c[1]), owner |-> c, ty |-> jl_any_type,
              constp |-> TRUE, exportp |-> TRUE, imported |-> FALSE, deprecated |-> 0]
        ELSE HT_NOTFOUND]

InitUsings == [m \in Modules |-> IF m = jl_core_module THEN <<>> ELSE <<jl_core_module>>]

NoPin == [c |-> NULL, b |-> NULL, skip |-> FALSE]

Threads == {"t1", "t2"}
NOBODY == "nobody"
Free == [by |-> NOBODY, n |-> 0]

\* ----------------------------------------------------------- module options
\* the module tree the options are read through: Main is its own parent,
\* Base and P are children of Main, B is a child of Base and C a child of P
OModules == {"Main", "Base", "B", "P", "C"}
parent ==
    [m \in OModules |->
        CASE m = "Main" -> "Main"
          [] m = "Base" -> "Main"
          [] m = "B" -> "Base"
          [] m = "P" -> "Main"
          [] m = "C" -> "P"]

\* the fields jl_new_module_ gives a module
InitOptions ==
    [m \in OModules |->
        [nospecialize |-> 0, optlevel |-> -1, compile |-> -1, infer |-> -1,
         max_methods |-> -1]]

jl_set_module_nospecialize(O, self, on) ==
    [O EXCEPT ![self].nospecialize = IF on # 0 THEN -1 ELSE 0]

jl_set_module_optlevel(O, self, lvl) == [O EXCEPT ![self].optlevel = lvl]

jl_get_module_optlevel_past_base(O, m) ==
    LET up[n \in OModules] ==
            IF O[n].optlevel = -1 /\ parent[n] # n THEN up[parent[n]] ELSE O[n].optlevel
    IN  up[m]

RECURSIVE jl_get_module_optlevel(_, _)
jl_get_module_optlevel(O, m) ==
    LET lvl == O[m].optlevel
    IN  IF lvl = -1 /\ parent[m] # m /\ m # jl_base_module
        THEN jl_get_module_optlevel(O, parent[m])
        ELSE lvl

jl_set_module_compile(O, self, value) == [O EXCEPT ![self].compile = value]

RECURSIVE jl_get_module_compile(_, _)
jl_get_module_compile(O, m) ==
    LET value == O[m].compile
    IN  IF value = -1 /\ parent[m] # m /\ m # jl_base_module
        THEN jl_get_module_compile(O, parent[m])
        ELSE value

jl_set_module_infer(O, self, value) ==
    LET O1 == [O EXCEPT ![self].infer = value]
    IN  IF value = 0 THEN jl_set_module_nospecialize(O1, self, 1) ELSE O1

RECURSIVE jl_get_module_infer(_, _)
jl_get_module_infer(O, m) ==
    LET value == O[m].infer
    IN  IF value = -1 /\ parent[m] # m /\ m # jl_base_module
        THEN jl_get_module_infer(O, parent[m])
        ELSE value

jl_set_module_max_methods(O, self, value) == [O EXCEPT ![self].max_methods = value]

RECURSIVE jl_get_module_max_methods(_, _)
jl_get_module_max_methods(O, m) ==
    LET value == O[m].max_methods
    IN  IF value = -1 /\ parent[m] # m /\ m # jl_base_module
        THEN jl_get_module_max_methods(O, parent[m])
        ELSE value

\* ----------------------------------------------------------------- build id
\* the widths of build_id.lo (64 bits in the source) and of the unsigned
\* mcounter (32 bits in the source), scaled down
LoBits == 4
CounterBits == 2
\* how many modules are constructed
MaxBuilt == 3

RECURSIVE Pow2(_)
Pow2(n) == IF n = 0 THEN 1 ELSE 2 * Pow2(n - 1)

\* lines 26-28: the clock plus the bumped counter, and 1 in place of 0
build_id_lo(hrtime, mcounter) ==
    LET lo == (hrtime + mcounter) % Pow2(LoBits)
    IN  IF lo = 0 THEN lo + 1 ELSE lo

InitBuild ==
    [jl_hrtime |-> 0, mcounter |-> 0, ids |-> <<>>,
     th |-> [t \in Threads |-> [pc |-> "idle", h |-> 0, c |-> 0]]]

Init ==
    /\ bindings = InitBindings
    /\ usings = InitUsings
    /\ nwarn = [c \in Modules \X Vars |-> 0]
    /\ pinned = NoPin
    /\ locks = [m \in Modules |-> Free]
    /\ stack = [t \in Threads |-> <<>>]
    /\ options = InitOptions
    /\ build = InitBuild

Unresolved(S, m, var) == S[<<m, var>>] = HT_NOTFOUND \/ S[<<m, var>>].owner = NULL

\* what the operations of Spec leave alone
others == <<usings, nwarn, pinned, locks, stack, options, build>>

GetBinding(m, var) ==
    /\ bindings' = jl_get_binding(NewCtx(bindings), m, var).C.S
    /\ UNCHANGED others

GetBindingWr(m, var, alloc) ==
    /\ bindings' = jl_get_binding_wr(NewCtx(bindings), m, var, alloc).C.S
    /\ UNCHANGED others

GetBindingForMethodDef(m, var) ==
    \E ub \in BOOLEAN :
        /\ bindings' = jl_get_binding_for_method_def(NewCtx(bindings), m, var, ub).C.S
        /\ UNCHANGED others

\* jl_module_import (explici = 1) and jl_module_use (explici = 0)
import_or_use(C, to, from, s, explici) ==
    LET r == jl_get_binding(C, from, s)
    IN  IF r.C.err # "" THEN r.C ELSE module_import_(r.C, to, from, r.b, s, s, explici)

ModuleImport(to, from, s) ==
    /\ bindings' = import_or_use(NewCtx(bindings), to, from, s, TRUE).S
    /\ UNCHANGED others

ModuleUse(to, from, s) ==
    /\ bindings' = import_or_use(NewCtx(bindings), to, from, s, FALSE).S
    /\ UNCHANGED others

ModuleUsing(to, from) ==
    LET r == jl_module_using(NewCtx(bindings), to, from)
    IN  /\ bindings' = r.C.S
        /\ usings' = [usings EXCEPT ![to] = r.us]
        /\ UNCHANGED <<nwarn, pinned, locks, stack, options, build>>

ModuleExport(m, s) ==
    /\ bindings' = jl_module_export(NewCtx(bindings), m, s).S
    /\ UNCHANGED others

SetGlobal(m, var, val) ==
    /\ bindings' = jl_set_global(NewCtx(bindings), m, var, val).S
    /\ UNCHANGED others

SetConst(m, var, val) ==
    /\ bindings' = jl_set_const(NewCtx(bindings), m, var, val).S
    /\ UNCHANGED others

ClearImplicitImports(m) ==
    /\ bindings' = jl_clear_implicit_imports(NewCtx(bindings), m).S
    /\ UNCHANGED others

Next ==
    \/ \E m \in Modules, var \in Vars : GetBinding(m, var)
    \/ \E m \in Modules, var \in Vars, alloc \in BOOLEAN : GetBindingWr(m, var, alloc)
    \/ \E m \in Modules, var \in Vars : GetBindingForMethodDef(m, var)
    \/ \E to \in Modules, from \in Modules, s \in Vars : ModuleImport(to, from, s)
    \/ \E to \in Modules, from \in Modules, s \in Vars : ModuleUse(to, from, s)
    \/ \E to \in Modules, from \in Modules : ModuleUsing(to, from)
    \/ \E m \in Modules, s \in Vars : ModuleExport(m, s)
    \/ \E m \in Modules, var \in Vars, val \in GlobalVals : SetGlobal(m, var, val)
    \/ \E m \in Modules, var \in Vars, val \in ConstVals : SetConst(m, var, val)
    \/ \E m \in Modules : ClearImplicitImports(m)

Spec == Init /\ [][Next]_vars

\* ---------------------------------------------------------------- SpecUsing
\* The operations that feed the using search, with the warnings counted and
\* the result of a using search remembered.
Bump(C) ==
    [c \in Modules \X Vars |->
        IF <<"must be qualified", c[1], c[2]>> \in C.warn /\ nwarn[c] < 2
        THEN nwarn[c] + 1 ELSE nwarn[c]]

\* the binding is deprecated and bound to nothing: module_import_ skips it
SkippedByImport(S, b) == S[b].deprecated # 0 /\ S[b].value = jl_nothing

UGetBinding(m, var) ==
    LET r == jl_get_binding(NewCtx(bindings), m, var)
    IN  /\ bindings' = r.C.S
        /\ nwarn' = Bump(r.C)
        /\ pinned' = IF Unresolved(bindings, m, var) /\ r.b # NULL
                     THEN [c |-> <<m, var>>, b |-> r.b,
                           skip |-> SkippedByImport(bindings, r.b)]
                     ELSE IF pinned.c = <<m, var>> THEN pinned ELSE NoPin
        /\ UNCHANGED <<usings, locks, stack, options, build>>

UModuleUsing(to, from) ==
    LET r == jl_module_using(NewCtx(bindings), to, from)
    IN  /\ bindings' = r.C.S
        /\ usings' = [usings EXCEPT ![to] = r.us]
        /\ nwarn' = Bump(r.C)
        /\ UNCHANGED <<pinned, locks, stack, options, build>>

UModuleExport(m, s) ==
    /\ bindings' = jl_module_export(NewCtx(bindings), m, s).S
    /\ UNCHANGED <<usings, nwarn, pinned, locks, stack, options, build>>

UModuleImport(to, from, s) ==
    LET C == import_or_use(NewCtx(bindings), to, from, s, TRUE)
    IN  /\ bindings' = C.S
        /\ nwarn' = Bump(C)
        /\ pinned' = NoPin
        /\ UNCHANGED <<usings, locks, stack, options, build>>

USetGlobal(m, var, val) ==
    /\ bindings' = jl_set_global(NewCtx(bindings), m, var, val).S
    /\ pinned' = NoPin
    /\ UNCHANGED <<usings, nwarn, locks, stack, options, build>>

USetConst(m, var, val) ==
    /\ bindings' = jl_set_const(NewCtx(bindings), m, var, val).S
    /\ pinned' = NoPin
    /\ UNCHANGED <<usings, nwarn, locks, stack, options, build>>

UDeprecateBinding(m, var, flag) ==
    LET C == jl_deprecate_binding(NewCtx(bindings), m, var, flag)
    IN  /\ bindings' = C.S
        /\ nwarn' = Bump(C)
        /\ pinned' = NoPin
        /\ UNCHANGED <<usings, locks, stack, options, build>>

NextUsing ==
    \/ \E m \in Modules, var \in Vars : UGetBinding(m, var)
    \/ \E to \in UsingTo, from \in Modules : UModuleUsing(to, from)
    \/ \E m \in Modules, s \in Vars : UModuleExport(m, s)
    \/ \E to \in Modules, from \in Modules, s \in Vars : UModuleImport(to, from, s)
    \/ \E m \in Modules, var \in Vars, val \in UGlobalVals : USetGlobal(m, var, val)
    \/ \E m \in Modules, var \in Vars, val \in UConstVals : USetConst(m, var, val)
    \/ \E m \in Modules, var \in Vars, flag \in 0..1 : UDeprecateBinding(m, var, flag)

SpecUsing == Init /\ [][NextUsing]_vars

\* --------------------------------------------------------------- SpecAssign
\* The operations on two modules that declare, assign and import bindings.
AModules == {"A", "U"}
AVals == {<<"Int64", "1">>, <<"Int64", "2">>, <<"DataType", "Int64">>}

AGetBindingWr(m, var, alloc) ==
    /\ bindings' = jl_get_binding_wr(NewCtx(bindings), m, var, alloc).C.S
    /\ UNCHANGED others

ASetGlobal(m, var, val) ==
    /\ bindings' = jl_set_global(NewCtx(bindings), m, var, val).S
    /\ UNCHANGED others

ASetConst(m, var, val) ==
    /\ bindings' = jl_set_const(NewCtx(bindings), m, var, val).S
    /\ UNCHANGED others

\* the binding that the caller hands over is a cell of the table
ADeclareConstant(m, var) ==
    /\ bindings[<<m, var>>] # HT_NOTFOUND
    /\ bindings' = jl_declare_constant(NewCtx(bindings), <<m, var>>, m, var).S
    /\ UNCHANGED others

AModuleImport(to, from, s, explici) ==
    /\ bindings' = import_or_use(NewCtx(bindings), to, from, s, explici).S
    /\ UNCHANGED others

AModuleExport(m, s) ==
    /\ bindings' = jl_module_export(NewCtx(bindings), m, s).S
    /\ UNCHANGED others

AClearImplicitImports(m) ==
    /\ bindings' = jl_clear_implicit_imports(NewCtx(bindings), m).S
    /\ UNCHANGED others

AGetBinding(m, var) ==
    /\ bindings' = jl_get_binding(NewCtx(bindings), m, var).C.S
    /\ UNCHANGED others

AModuleUsing(to, from) ==
    LET r == jl_module_using(NewCtx(bindings), to, from)
    IN  /\ bindings' = r.C.S
        /\ usings' = [usings EXCEPT ![to] = r.us]
        /\ UNCHANGED <<nwarn, pinned, locks, stack, options, build>>

AGetBindingForMethodDef(m, var) ==
    \E ub \in BOOLEAN :
        /\ bindings' = jl_get_binding_for_method_def(NewCtx(bindings), m, var, ub).C.S
        /\ UNCHANGED others

ADeprecateBinding(m, var, flag) ==
    /\ bindings' = jl_deprecate_binding(NewCtx(bindings), m, var, flag).S
    /\ UNCHANGED others

NextAssign ==
    \/ \E m \in AModules, var \in Vars, alloc \in BOOLEAN : AGetBindingWr(m, var, alloc)
    \/ \E m \in AModules, var \in Vars, val \in AVals : ASetGlobal(m, var, val)
    \/ \E m \in AModules, var \in Vars, val \in AVals : ASetConst(m, var, val)
    \/ \E m \in AModules, var \in Vars : ADeclareConstant(m, var)
    \/ \E to \in Modules, from \in AModules, s \in Vars, explici \in BOOLEAN :
          AModuleImport(to, from, s, explici)
    \/ \E m \in AModules, s \in Vars : AModuleExport(m, s)
    \/ \E m \in Modules : AClearImplicitImports(m)
    \/ \E m \in AModules, var \in Vars : AGetBinding(m, var)
    \/ \E to \in AModules, from \in AModules : AModuleUsing(to, from)
    \/ \E m \in AModules, var \in Vars : AGetBindingForMethodDef(m, var)
    \/ \E m \in AModules, var \in Vars, flag \in 0..1 : ADeprecateBinding(m, var, flag)

SpecAssign == Init /\ [][NextAssign]_vars

\* -------------------------------------------------------------- SpecOptions
\* The setters of the four inherited options and of nospecialize, called on
\* the modules of the tree.
OptVals == {-2, -1, 1, 3}
nonoptions == <<bindings, usings, nwarn, pinned, locks, stack, build>>

SetModuleOptlevel(self, lvl) ==
    /\ options' = jl_set_module_optlevel(options, self, lvl)
    /\ UNCHANGED nonoptions

SetModuleCompile(self, value) ==
    /\ options' = jl_set_module_compile(options, self, value)
    /\ UNCHANGED nonoptions

SetModuleInfer(self, value) ==
    /\ options' = jl_set_module_infer(options, self, value)
    /\ UNCHANGED nonoptions

SetModuleMaxMethods(self, value) ==
    /\ options' = jl_set_module_max_methods(options, self, value)
    /\ UNCHANGED nonoptions

SetModuleNospecialize(self, on) ==
    /\ options' = jl_set_module_nospecialize(options, self, on)
    /\ UNCHANGED nonoptions

NextOptions ==
    \/ \E self \in OModules, lvl \in OptVals : SetModuleOptlevel(self, lvl)
    \/ \E self \in {"P", "C"}, value \in {-1, 1} : SetModuleCompile(self, value)
    \/ \E self \in {"C"}, value \in {-1, 0, 1} : SetModuleInfer(self, value)
    \/ \E self \in {"C"}, value \in {-1, 3} : SetModuleMaxMethods(self, value)
    \/ \E self \in {"C"}, on \in 0..1 : SetModuleNospecialize(self, on)

SpecOptions == Init /\ [][NextOptions]_vars

\* ---------------------------------------------------------------- SpecBuild
\* Two threads construct modules while the clock stands still or moves on.
\* Line 26 reads the clock, loads mcounter and stores it bumped: mcounter is
\* a plain static, so another thread's load may fall between the two.
nonbuild == <<bindings, usings, nwarn, pinned, locks, stack, options>>

Started ==
    Len(build.ids) + Cardinality({t \in Threads : build.th[t].pc # "idle"})

ClockTick ==
    /\ build.jl_hrtime < Pow2(LoBits) - 1
    /\ build' = [build EXCEPT !.jl_hrtime = @ + 1]
    /\ UNCHANGED nonbuild

NewModuleLoad(t) ==
    /\ build.th[t].pc = "idle"
    /\ Started < MaxBuilt
    /\ build' = [build EXCEPT !.th[t] =
                    [pc |-> "store", h |-> build.jl_hrtime, c |-> build.mcounter]]
    /\ UNCHANGED nonbuild

NewModuleStore(t) ==
    /\ build.th[t].pc = "store"
    /\ LET mcounter == (build.th[t].c + 1) % Pow2(CounterBits)
           h == build.th[t].h
       IN  build' = [build EXCEPT
                        !.mcounter = mcounter,
                        !.ids = Append(@, [h |-> h, lo |-> build_id_lo(h, mcounter)]),
                        !.th[t] = [pc |-> "idle", h |-> 0, c |-> 0]]
    /\ UNCHANGED nonbuild

NextBuild ==
    \/ ClockTick
    \/ \E t \in Threads : NewModuleLoad(t)
    \/ \E t \in Threads : NewModuleStore(t)

SpecBuild == Init /\ [][NextBuild]_vars

\* ---------------------------------------------------------------- SpecNames
\* The operations that decide what module_names lists: bindings are created,
\* given values, imported, found through usings, exported and deprecated;
\* hidden names are assigned and exported.
NextNames ==
    \/ \E m \in AModules, var \in Vars : AGetBindingWr(m, var, TRUE)
    \/ \E m \in AModules, var \in Vars \cup HiddenNames :
          ASetGlobal(m, var, <<"Int64", "1">>)
    \/ \E to \in AModules, from \in AModules, s \in Vars, explici \in BOOLEAN :
          AModuleImport(to, from, s, explici)
    \/ \E m \in AModules, s \in Vars \cup HiddenNames : AModuleExport(m, s)
    \/ \E m \in AModules, var \in Vars : AGetBinding(m, var)
    \/ \E to \in AModules, from \in AModules : AModuleUsing(to, from)
    \/ \E m \in AModules, var \in Vars, flag \in 0..1 : ADeprecateBinding(m, var, flag)

SpecNames == Init /\ [][NextNames]_vars

\* -------------------------------------------------------------- SpecThreads
\* Two threads run the operations that take module locks. A thread runs until
\* its next JL_LOCK; the lock is granted in a step of its own, when no other
\* thread holds it.
TModules == {"A", "U"}
MaxLeaked == 1
Holds(t, m) == locks[m].by = t

\* a call in progress: jl_module_using ("using": m is to), jl_resolve_owner
\* ("resolve"), using_resolve_binding ("search"), jl_binding_owner ("bowner")
Frame(fn, pc, m, var) ==
    [fn |-> fn, pc |-> pc, m |-> m, var |-> var, from |-> NULLMOD, i |-> 0,
     b |-> NULL, owner |-> NULLMOD, warn |-> FALSE]

NullRet == [b |-> NULL, from |-> NULLMOD]

\* the machine of thread t: tables, usings, locks, t's stack, the value the
\* last callee returned
MkK(t) ==
    [S |-> bindings, us |-> usings, lk |-> locks, stk |-> stack[t], t |-> t,
     ret |-> NullRet]

TopFrame(K) == K.stk[Len(K.stk)]
Pop(K, ret) == [K EXCEPT !.stk = SubSeq(@, 1, Len(@) - 1), !.ret = ret]
SetTop(K, f) == [K EXCEPT !.stk[Len(K.stk)] = f]
Push(K, f) == [K EXCEPT !.stk = Append(@, f)]

Avail(lk, m, t) == lk[m].by \in {NOBODY, t}
TLock(K, m) == [K EXCEPT !.lk[m] = [by |-> K.t, n |-> @.n + 1]]
TUnlock(K, m) ==
    IF K.lk[m].by = K.t /\ K.lk[m].n > 1 THEN [K EXCEPT !.lk[m].n = @ - 1]
    ELSE IF K.lk[m].by = K.t THEN [K EXCEPT !.lk[m] = Free]
    ELSE K

\* the context in which the sequential operators run a piece of t's code
CtxOf(K) ==
    [NewCtx(K.S) EXCEPT !.lk = [m \in Modules |->
                                   IF K.lk[m].by = K.t THEN K.lk[m].n ELSE 0]]
Back(K, C) ==
    [K EXCEPT !.S = C.S,
              !.lk = [m \in Modules |->
                         IF K.lk[m].by # K.t THEN K.lk[m]
                         ELSE IF C.lk[m] > 0 THEN [by |-> K.t, n |-> C.lk[m]]
                         ELSE Free]]

AtLock(f) == f.pc \in {"lock_to", "lock_from", "lock", "lock_import", "relock"}
LockOf(f) == IF f.pc = "lock_from" THEN f.from ELSE f.m

\* JL_LOCK returns: the pc after it
Grant(K) ==
    LET f == TopFrame(K)
        pc == CASE f.pc = "lock_to" -> "check"
                [] f.pc = "lock_from" -> "scan"
                [] f.pc = "lock_import" -> "import"
                [] f.pc = "relock" -> "relocked"
                [] f.pc = "lock" /\ f.fn = "resolve" -> "search"
                [] f.pc = "lock" /\ f.fn = "bowner" -> "locked"
                [] f.pc = "lock" /\ f.fn = "methdef" -> "locked"
    IN  SetTop(TLock(K, LockOf(f)), [f EXCEPT !.pc = pc])

\* jl_resolve_owner(NULL, m, var, st) up to its JL_LOCK; st holds the resolve
\* frames on the stack
resolve_call(K, m, var) ==
    LET c0 == jl_get_module_binding(K.S, m, var)
        b == IF c0 # NULL THEN K.S[c0].owner ELSE NULL
    IN  IF b # NULL
        THEN [K EXCEPT !.ret = [b |-> b, from |-> NULLMOD]]
        ELSE IF \E k \in 1..Len(K.stk) :
                   K.stk[k].fn = "resolve" /\ K.stk[k].m = m /\ K.stk[k].var = var
        THEN [K EXCEPT !.ret = NullRet]
        ELSE Push(K, Frame("resolve", "lock", m, var))

search_call(K, f, warn) ==
    Push(SetTop(K, [f EXCEPT !.pc = "searched"]),
         [Frame("search", "loop", f.m, f.var) EXCEPT !.i = Len(K.us[f.m]),
                                                     !.warn = warn])

\* jl_module_using without the search of to->usings for from
using_step_no_search(K, f) ==
    IF f.pc = "check"
    THEN SetTop(K, [f EXCEPT !.pc = "lock_from"])
    ELSE Pop([TUnlock(TUnlock(K, f.from), f.m) EXCEPT !.us[f.m] = Append(@, f.from)],
             NullRet)

\* jl_module_using after JL_LOCK(&to->lock), and after JL_LOCK(&from->lock);
\* the scan for conflicts only reads and prints
using_step(K, f) ==
    IF f.pc = "check"
    THEN IF InUsings(K.us[f.m], f.from)
         THEN Pop(TUnlock(K, f.m), NullRet)
         ELSE SetTop(K, [f EXCEPT !.pc = "lock_from"])
    ELSE Pop([TUnlock(TUnlock(K, f.from), f.m) EXCEPT !.us[f.m] = Append(@, f.from)],
             NullRet)

\* jl_resolve_owner after its JL_LOCK ("search"), after using_resolve_binding
\* returned ("searched": JL_UNLOCK, then module_import_ up to its JL_LOCK),
\* and module_import_ after its JL_LOCK ("import")
resolve_step(K, f) ==
    CASE f.pc = "search" -> search_call(K, f, TRUE)
      [] f.pc = "searched" ->
            LET K1 == TUnlock(K, f.m)
                b == K.ret.b
            IN  IF b = NULL THEN Pop(K1, NullRet)
                ELSE IF K1.S[b].deprecated # 0 /\ K1.S[b].value = jl_nothing
                THEN Pop(K1, [b |-> b, from |-> NULLMOD])
                ELSE SetTop(K1, [f EXCEPT !.pc = "lock_import", !.b = b,
                                          !.from = K.ret.from])
      [] f.pc = "import" ->
            Pop(Back(K, module_import_locked(CtxOf(K), f.m, f.from, f.b, f.var,
                                             f.var, FALSE)),
                [b |-> f.b, from |-> NULLMOD])

\* the loop of using_resolve_binding: about to visit usings[i] ("loop"), with
\* the nested jl_resolve_owner returned ("nested"), and after the JL_LOCK that
\* follows the warning ("relocked")
search_step(K, f) ==
    CASE f.pc = "loop" ->
            IF f.i = 0 THEN Pop(K, [b |-> f.b, from |-> f.owner])
            ELSE LET imp == K.us[f.m][f.i]
                     tempb0 == jl_get_module_binding(K.S, imp, f.var)
                 IN  IF tempb0 # NULL /\ K.S[tempb0].exportp
                     THEN resolve_call(SetTop(K, [f EXCEPT !.pc = "nested"]), imp, f.var)
                     ELSE SetTop(K, [f EXCEPT !.i = @ - 1])
      [] f.pc = "nested" ->
            LET tempb == K.ret.b
                next == [f EXCEPT !.i = @ - 1, !.pc = "loop"]
            IN  IF tempb = NULL THEN SetTop(K, next)
                ELSE IF /\ f.b # NULL
                        /\ K.S[tempb].deprecated = 0
                        /\ K.S[f.b].deprecated = 0
                        /\ ~eq_bindings(K.S, tempb, f.b)
                THEN IF f.warn
                     THEN SetTop(TUnlock(Back(K, jl_get_binding_wr(CtxOf(K), f.m, f.var,
                                                                   TRUE).C), f.m),
                                 [f EXCEPT !.pc = "relock"])
                     ELSE Pop(K, NullRet)
                ELSE IF f.owner = NULLMOD \/ K.S[tempb].deprecated = 0
                THEN SetTop(K, [next EXCEPT !.b = tempb, !.owner = K.us[f.m][f.i]])
                ELSE SetTop(K, next)
      [] f.pc = "relocked" -> Pop(K, NullRet)

\* jl_binding_owner after its JL_LOCK ("locked") and after
\* using_resolve_binding returned ("searched"): the return of NULL leaves
\* m->lock held
bowner_step(K, f) ==
    IF f.pc = "locked"
    THEN LET b == K.S[<<f.m, f.var>>]
         IN  IF b = HT_NOTFOUND \/ b.owner = NULL
             THEN search_call(K, f, FALSE)
             ELSE Pop(TUnlock(K, f.m), [b |-> b.owner, from |-> f.m])
    ELSE IF K.ret.b = NULL
         THEN Pop(K, NullRet)
         ELSE Pop(TUnlock(K, f.m), K.ret)

\* jl_get_binding_for_method_def after its JL_LOCK ("locked": the slot is
\* read, a missing cell is created, the lock is given back and b->owner is
\* read) and at the store b->owner = b that follows a NULL owner
\* ("store_owner"), which is made with the lock released
methdef_step(K, f) ==
    LET c == <<f.m, f.var>>
        b == K.S[c]
    IN  IF f.pc = "store_owner"
        THEN Pop([K EXCEPT !.S[c].owner = c], [b |-> c, from |-> NULLMOD])
        ELSE IF b = HT_NOTFOUND
        THEN Pop(TUnlock([K EXCEPT !.S[c] = [new_binding EXCEPT !.owner = c]], f.m),
                 [b |-> c, from |-> NULLMOD])
        ELSE IF b.owner = NULL
        THEN SetTop(TUnlock(K, f.m), [f EXCEPT !.pc = "store_owner"])
        ELSE IF b.owner = c \/ b.imported
                \/ (K.S[b.owner].constp /\ K.S[b.owner].value # NULL
                    /\ jl_is_type(K.S[b.owner].value))
        THEN Pop(TUnlock(K, f.m), [b |-> b.owner, from |-> NULLMOD])
        ELSE Pop(TUnlock(K, f.m), NullRet)

\* a store made outside the lock: other threads run before it
AtStore(f) == f.pc = "store_owner"

Step1(K) ==
    LET f == TopFrame(K)
    IN  CASE f.fn = "using" -> using_step(K, f)
          [] f.fn = "methdef" -> methdef_step(K, f)
          [] f.fn = "resolve" -> resolve_step(K, f)
          [] f.fn = "search" -> search_step(K, f)
          [] f.fn = "bowner" -> bowner_step(K, f)

RECURSIVE Exec(_)
\* run thread K.t up to its next JL_LOCK, to its next store outside a lock,
\* or to the end of its call
Exec(K) ==
    IF K.stk = <<>> \/ AtLock(TopFrame(K)) \/ AtStore(TopFrame(K)) THEN K
    ELSE Exec(Step1(K))

Commit(K) ==
    /\ bindings' = K.S
    /\ usings' = K.us
    /\ locks' = K.lk
    /\ stack' = [stack EXCEPT ![K.t] = K.stk]
    /\ UNCHANGED <<nwarn, pinned, options, build>>

Idle(t) == stack[t] = <<>>
Waiting(t) ==
    /\ ~Idle(t)
    /\ ~Avail(locks, LockOf(stack[t][Len(stack[t])]), t)

TModuleUsing(t, to, from) ==
    /\ Idle(t)
    /\ IF to = from THEN UNCHANGED vars
       ELSE Commit(Push(MkK(t), [Frame("using", "lock_to", to, to) EXCEPT !.from = from]))

TGetBinding(t, m, var) ==
    /\ Idle(t)
    /\ Commit(Exec(resolve_call(MkK(t), m, var)))

\* a thread that already holds m->lock MaxLeaked times over does not call again
TBindingOwner(t, m, var) ==
    /\ Idle(t)
    /\ Holds(t, m) => locks[m].n < MaxLeaked
    /\ Commit(Push(MkK(t), Frame("bowner", "lock", m, var)))

\* the JL_LOCK a thread stands at returns, and the thread runs on
TAcquire(t) ==
    /\ ~Idle(t)
    /\ AtLock(stack[t][Len(stack[t])])
    /\ ~Waiting(t)
    /\ Commit(Exec(Grant(MkK(t))))

TGetBindingForMethodDef(t, m, var) ==
    /\ Idle(t)
    /\ Commit(Push(MkK(t), Frame("methdef", "lock", m, var)))

\* the store of b->owner that jl_get_binding_for_method_def left pending
TStoreOwner(t) ==
    /\ ~Idle(t)
    /\ AtStore(stack[t][Len(stack[t])])
    /\ Commit(Exec(Step1(MkK(t))))

\* jl_module_export and jl_set_const take one lock and give it back
TModuleExport(t, m, s) ==
    /\ Idle(t)
    /\ Avail(locks, m, t)
    /\ Commit(Back(MkK(t), jl_module_export(CtxOf(MkK(t)), m, s)))

TSetConst(t, m, var, val) ==
    /\ Idle(t)
    /\ Avail(locks, m, t)
    /\ Commit(Back(MkK(t), jl_set_const(CtxOf(MkK(t)), m, var, val)))

\* jl_set_global: jl_get_binding_wr takes the lock and gives it back, the
\* assignment that follows takes none
TSetGlobal(t, m, var, val) ==
    /\ Idle(t)
    /\ Avail(locks, m, t)
    /\ Commit(Back(MkK(t), jl_set_global(CtxOf(MkK(t)), m, var, val)))

NextThreads ==
    \E t \in Threads :
        \/ \E to \in TModules, from \in TModules : TModuleUsing(t, to, from)
        \/ \E m \in TModules, var \in Vars : TGetBinding(t, m, var)
        \/ \E m \in TModules, var \in Vars : TBindingOwner(t, m, var)
        \/ TAcquire(t)
        \/ \E m \in TModules, var \in Vars : TGetBindingForMethodDef(t, m, var)
        \/ TStoreOwner(t)
        \/ \E m \in TModules, s \in Vars : TModuleExport(t, m, s)
        \/ \E m \in TModules, var \in Vars, val \in GlobalVals : TSetConst(t, m, var, val)
        \/ \E m \in TModules, var \in Vars, val \in GlobalVals : TSetGlobal(t, m, var, val)

SpecThreads == Init /\ [][NextThreads]_vars

\* ---------------------------------------------------------------- SpecConst
\* Two threads each call jl_set_const once. A call is a frame on the thread's
\* stack; it advances one memory access at a time: jl_get_binding_wr ("wr"),
\* the load of bp->value ("load"), the cmpswap of bp->ty ("ty"), the plain
\* read of bp->constp ("rdconstp"), the plain write of bp->constp
\* ("wrconstp"), the cmpswap of bp->value ("value"). It ends "returned" or
\* "raised".
ConstFrame(m, var, val) ==
    [fn |-> "set_const", pc |-> "wr", m |-> m, var |-> var, val |-> val,
     constp |-> FALSE, err |-> ""]

Finished(f) == f.pc \in {"returned", "raised"}

\* the last access storing val whatever bp->value holds
jl_set_const_step_plain_store(S, f) ==
    LET bp == <<f.m, f.var>>
        raised == [S |-> S, f |-> [f EXCEPT !.pc = "raised",
                                            !.err = "ConstantRedefinition"]]
    IN  CASE f.pc = "wr" ->
                LET w == jl_get_binding_wr(NewCtx(S), f.m, f.var, TRUE)
                IN  IF w.C.err # ""
                    THEN [S |-> w.C.S, f |-> [f EXCEPT !.pc = "raised", !.err = w.C.err]]
                    ELSE [S |-> w.C.S, f |-> [f EXCEPT !.pc = "load"]]
          [] f.pc = "load" ->
                IF S[bp].value = NULL THEN [S |-> S, f |-> [f EXCEPT !.pc = "ty"]]
                ELSE raised
          [] f.pc = "ty" ->
                [S |-> [S EXCEPT ![bp].ty = IF @ = NULL THEN jl_any_type ELSE @],
                 f |-> [f EXCEPT !.pc = "rdconstp"]]
          [] f.pc = "rdconstp" ->
                [S |-> S, f |-> [f EXCEPT !.pc = "wrconstp", !.constp = S[bp].constp]]
          [] f.pc = "wrconstp" ->
                IF ~f.constp
                THEN [S |-> [S EXCEPT ![bp].constp = TRUE], f |-> [f EXCEPT !.pc = "value"]]
                ELSE [raised EXCEPT !.S = [S EXCEPT ![bp].constp = TRUE]]
          [] f.pc = "value" ->
                [S |-> [S EXCEPT ![bp].value = f.val], f |-> [f EXCEPT !.pc = "returned"]]

jl_set_const_step(S, f) ==
    LET bp == <<f.m, f.var>>
        raised == [S |-> S, f |-> [f EXCEPT !.pc = "raised",
                                            !.err = "ConstantRedefinition"]]
    IN  CASE f.pc = "wr" ->
                LET w == jl_get_binding_wr(NewCtx(S), f.m, f.var, TRUE)
                IN  IF w.C.err # ""
                    THEN [S |-> w.C.S, f |-> [f EXCEPT !.pc = "raised", !.err = w.C.err]]
                    ELSE [S |-> w.C.S, f |-> [f EXCEPT !.pc = "load"]]
          [] f.pc = "load" ->
                IF S[bp].value = NULL THEN [S |-> S, f |-> [f EXCEPT !.pc = "ty"]]
                ELSE raised
          [] f.pc = "ty" ->
                [S |-> [S EXCEPT ![bp].ty = IF @ = NULL THEN jl_any_type ELSE @],
                 f |-> [f EXCEPT !.pc = "rdconstp"]]
          [] f.pc = "rdconstp" ->
                [S |-> S, f |-> [f EXCEPT !.pc = "wrconstp", !.constp = S[bp].constp]]
          [] f.pc = "wrconstp" ->
                IF ~f.constp
                THEN [S |-> [S EXCEPT ![bp].constp = TRUE], f |-> [f EXCEPT !.pc = "value"]]
                ELSE [raised EXCEPT !.S = [S EXCEPT ![bp].constp = TRUE]]
          [] f.pc = "value" ->
                IF S[bp].value = NULL
                THEN [S |-> [S EXCEPT ![bp].value = f.val],
                      f |-> [f EXCEPT !.pc = "returned"]]
                ELSE raised

CSetConstCall(t, m, var, val) ==
    /\ Idle(t)
    /\ stack' = [stack EXCEPT ![t] = <<ConstFrame(m, var, val)>>]
    /\ UNCHANGED <<bindings, usings, nwarn, pinned, locks, options, build>>

CSetConstStep(t) ==
    /\ ~Idle(t)
    /\ ~Finished(stack[t][1])
    /\ LET r == jl_set_const_step(bindings, stack[t][1])
       IN  /\ bindings' = r.S
           /\ stack' = [stack EXCEPT ![t] = <<r.f>>]
    /\ UNCHANGED <<usings, nwarn, pinned, locks, options, build>>

NextConst ==
    \/ \E t \in Threads, m \in AModules, var \in Vars, val \in AVals :
          CSetConstCall(t, m, var, val)
    \/ \E t \in Threads : CSetConstStep(t)

SpecConst == Init /\ [][NextConst]_vars

\* ---------------------------------------------------------------- properties
Present(S, c) == S[c] # HT_NOTFOUND
SelfOwned(S, c) == Present(S, c) /\ S[c].owner = c
\* the cell is an alias: its owner is another binding
Foreign(S, c) == Present(S, c) /\ S[c].owner # NULL /\ S[c].owner # c
NoLocks(C) == \A m \in Modules : C.lk[m] = 0

\* C1: every cell's owner is unset, the cell itself, or a self-owned binding;
\* every binding get_binding returns is its own owner, and no assertion of the
\* resolver fails.
OwnerOneHop ==
    /\ \A c \in Cells :
          Present(bindings, c) =>
             \/ bindings[c].owner = NULL
             \/ bindings[c].owner = c
             \/ SelfOwned(bindings, bindings[c].owner)
    /\ \A m \in Modules, var \in Vars :
          LET r == jl_get_binding(NewCtx(bindings), m, var)
          IN  /\ r.C.fail = {}
              /\ r.b # NULL => r.C.S[r.b].owner = r.b
              /\ \A c \in Cells :
                    Foreign(r.C.S, c) => SelfOwned(r.C.S, r.C.S[c].owner)

\* a using search found a binding that is an alias chain away: U.x is an alias
\* of a self-owned binding that get_binding returns, and another module
\* aliases the same owner
OwnerOneHopWitness ==
    \E c \in Cells, d \in Cells :
        /\ c # d
        /\ Foreign(bindings, c) /\ ~bindings[c].imported
        /\ Foreign(bindings, d) /\ bindings[d].imported
        /\ bindings[c].owner = bindings[d].owner
        /\ jl_get_binding(NewCtx(bindings), c[1], c[2]).b = bindings[c].owner

\* C2: get_binding ends on every using graph (the nesting of jl_resolve_owner
\* frames stays below MaxDepth), and returns NULL for a name no module defines.
ResolveTerminates ==
    \A m \in Modules, var \in Vars :
        LET r == jl_get_binding(NewCtx(bindings), m, var)
        IN  /\ r.C.err # "Diverged"
            /\ (\A m2 \in Modules : ~SelfOwned(bindings, <<m2, var>>)) => r.b = NULL

Cyclic(m1, m2) == m1 # m2 /\ InUsings(usings[m1], m2) /\ InUsings(usings[m2], m1)

\* a using cycle with an exported placeholder in every module, where the cycle
\* detector cut the recursion and the lookup returned NULL
ResolveTerminatesWitness ==
    \E m1 \in Modules, m2 \in Modules, var \in Vars :
        /\ Cyclic(m1, m2)
        /\ \A m \in Modules :
              /\ Present(bindings, <<m, var>>)
              /\ bindings[<<m, var>>].owner = NULL
              /\ bindings[<<m, var>>].exportp
        /\ LET r == jl_get_binding(NewCtx(bindings), m1, var)
           IN  r.C.cyc /\ r.b = NULL /\ r.C.err = ""

\* C8: set_global on a cell that aliases a foreign owner raises
\* CannotAssignImported and changes no binding and holds no lock afterwards.
SetGlobalOnAliasFails ==
    \A m \in Modules, var \in Vars, val \in GlobalVals \cup ConstVals :
        Foreign(bindings, <<m, var>>) =>
            LET C == jl_set_global(NewCtx(bindings), m, var, val)
            IN  /\ C.err = "CannotAssignImported"
                /\ C.S = bindings
                /\ NoLocks(C)

\* one module holds an explicitly imported alias and another an alias that is
\* not flagged imported, both of an owner that has a value
SetGlobalOnAliasFailsWitness ==
    \E c \in Cells, d \in Cells :
        /\ Foreign(bindings, c) /\ bindings[c].imported
        /\ Foreign(bindings, d) /\ ~bindings[d].imported
        /\ bindings[bindings[c].owner].value # NULL
        /\ jl_set_global(NewCtx(bindings), d[1], d[2], <<"Int64", "1">>).err
              = "CannotAssignImported"

\* what jl_get_binding_wr returns is NULL or a binding that is its own owner
ReturnsCanonical(r) == r.b = NULL \/ r.C.S[r.b].owner = r.b

\* the effect of jl_get_binding_wr on a cell that has no foreign owner
WrCreatesOrClaims(m, var, alloc, r) ==
    LET c == <<m, var>>
    IN  /\ r.C.err = ""
        /\ NoLocks(r.C)
        /\ ~Present(bindings, c) /\ alloc =>
              r.b = c /\ r.C.S = [bindings EXCEPT ![c] = [new_binding EXCEPT !.owner = c]]
        /\ ~Present(bindings, c) /\ ~alloc => r.b = NULL /\ r.C.S = bindings
        /\ Present(bindings, c) /\ bindings[c].owner = NULL =>
              r.b = c /\ r.C.S = [bindings EXCEPT ![c].owner = c]
        /\ SelfOwned(bindings, c) => r.b = c /\ r.C.S = bindings

\* C9 as claimed: for every alloc, get_binding_wr fails with
\* CannotAssignImported on a foreign-owned cell, and otherwise returns NULL
\* or a canonical binding, creating the cell iff alloc and claiming a placeholder.
WrNeverReturnsAlias ==
    \A m \in Modules, var \in Vars, alloc \in BOOLEAN :
        LET r == jl_get_binding_wr(NewCtx(bindings), m, var, alloc)
        IN  IF Foreign(bindings, <<m, var>>)
            THEN r.C.err = "CannotAssignImported"
            ELSE ReturnsCanonical(r) /\ WrCreatesOrClaims(m, var, alloc, r)

\* C9 amended: on a foreign-owned cell get_binding_wr fails with
\* CannotAssignImported when alloc is set, and with alloc clear it returns the
\* alias cell itself; nothing changes in either case.  On any other cell it
\* returns NULL or a canonical binding, creating the cell iff alloc and
\* claiming a placeholder.
WrAliasOnlyWithoutAlloc ==
    \A m \in Modules, var \in Vars, alloc \in BOOLEAN :
        LET r == jl_get_binding_wr(NewCtx(bindings), m, var, alloc)
        IN  IF Foreign(bindings, <<m, var>>)
            THEN /\ r.C.S = bindings
                 /\ NoLocks(r.C)
                 /\ alloc => r.C.err = "CannotAssignImported"
                 /\ ~alloc => r.C.err = "" /\ r.b = <<m, var>>
            ELSE ReturnsCanonical(r) /\ WrCreatesOrClaims(m, var, alloc, r)

\* the tables hold an alias, which get_binding_wr returns when alloc is clear,
\* and an unowned placeholder
WrAliasOnlyWithoutAllocWitness ==
    \E c \in Cells, d \in Cells :
        /\ Foreign(bindings, c)
        /\ jl_get_binding_wr(NewCtx(bindings), c[1], c[2], FALSE).b = c
        /\ Present(bindings, d) /\ bindings[d].owner = NULL

\* C10: on a cell aliasing a foreign owner o, get_binding_for_method_def
\* returns o when the cell is flagged imported or o is a constant whose value
\* is a type, and otherwise raises MustExplicitlyImport changing nothing; on
\* an absent or unowned cell it returns a self-owned cell of M.
MethodDefResult ==
    \A m \in Modules, var \in Vars, ub \in BOOLEAN :
        LET c == <<m, var>>
            r == jl_get_binding_for_method_def(NewCtx(bindings), m, var, ub)
            o == bindings[c].owner
        IN  /\ r.C.fail = {}
            /\ Foreign(bindings, c) =>
                  IF \/ bindings[c].imported
                     \/ /\ bindings[o].constp
                        /\ bindings[o].value # NULL
                        /\ jl_is_type(bindings[o].value)
                  THEN r.C.err = "" /\ r.b = o /\ r.C.S = bindings
                  ELSE r.C.err = "MustExplicitlyImport" /\ r.C.S = bindings
            /\ ~Foreign(bindings, c) =>
                  /\ r.C.err = "" /\ r.b = c /\ r.C.S[c].owner = c
                  /\ \A d \in Cells \ {c} : r.C.S[d] = bindings[d]

\* ------------------------------------------------- the using search, as sets
\* frame of the top-level search for m.var
Top(m, var) == <<<<m, var>>>>

\* the binding that the i-th using of m contributes to a search for var, or NULL
Candidate(S, m, var, i) ==
    LET imp == usings[m][i]
    IN  IF Present(S, <<imp, var>>) /\ S[<<imp, var>>].exportp
        THEN jl_resolve_owner(NewCtx(S), imp, var, Top(m, var)).b
        ELSE NULL

CandidateIdx(S, m, var) ==
    {i \in 1..Len(usings[m]) : Candidate(S, m, var, i) # NULL}

Live(S, m, var) ==
    {i \in CandidateIdx(S, m, var) : S[Candidate(S, m, var, i)].deprecated = 0}

\* two candidates that are both not deprecated and not eq_bindings
Clash(S, m, var) ==
    \E i \in Live(S, m, var), j \in Live(S, m, var) :
        ~eq_bindings(S, Candidate(S, m, var, i), Candidate(S, m, var, j))

\* the same binding, or two constants bound to the identical value
SameOrEqualConst(S, a, b) ==
    \/ a = b
    \/ S[a].constp /\ S[b].constp /\ S[a].value # NULL /\ S[a].value = S[b].value

Ambiguous(r, m, var) == r.b = NULL /\ <<"must be qualified", m, var>> \in r.C.warn

\* C4: a using search for U.v is ambiguous exactly when two candidates are
\* both not deprecated and not eq_bindings; the warning for (U, v) is printed
\* at most once, and a second get_binding(U, v) prints none.
AmbiguousIffClash ==
    /\ \A c \in Modules \X Vars : nwarn[c] <= 1
    /\ \A m \in Modules, var \in Vars :
          LET r == jl_get_binding(NewCtx(bindings), m, var)
              r2 == jl_get_binding(NewCtx(r.C.S), m, var)
          IN  /\ <<"must be qualified", m, var>> \in r.C.warn => Ambiguous(r, m, var)
              /\ Unresolved(bindings, m, var) =>
                    (Ambiguous(r, m, var) <=> Clash(bindings, m, var))
              /\ ~Unresolved(bindings, m, var) => ~Ambiguous(r, m, var)
              /\ Ambiguous(r, m, var) => <<"must be qualified", m, var>> \notin r2.C.warn
              /\ (/\ Unresolved(bindings, m, var)
                  /\ \A i \in Live(bindings, m, var), j \in Live(bindings, m, var) :
                        SameOrEqualConst(bindings, Candidate(bindings, m, var, i),
                                         Candidate(bindings, m, var, j)))
                    => ~Ambiguous(r, m, var)

\* a using search printed its warning once, and left a cell that stops the
\* next get_binding from searching again
AmbiguousIffClashWitness ==
    \E m \in Modules, var \in Vars :
        /\ nwarn[<<m, var>>] = 1
        /\ Len(usings[m]) = 2
        /\ ~Unresolved(bindings, m, var)
        /\ jl_get_binding(NewCtx(bindings), m, var).C.warn = {}

\* a using search over two distinct constants with the same value
EqualConstantsWitness ==
    \E m \in Modules, var \in Vars :
        /\ Unresolved(bindings, m, var)
        /\ Len(usings[m]) = 2
        /\ CandidateIdx(bindings, m, var) = {1, 2}
        /\ Candidate(bindings, m, var, 1) # Candidate(bindings, m, var, 2)
        /\ ~Clash(bindings, m, var)
        /\ Live(bindings, m, var) = {1, 2}

LiveCands(S, m, var) == {Candidate(S, m, var, i) : i \in Live(S, m, var)}
DeadCands(S, m, var) ==
    {Candidate(S, m, var, i) : i \in CandidateIdx(S, m, var) \ Live(S, m, var)}

\* C5: with a candidate that is not deprecated and no ambiguity, the using
\* search returns a candidate that is not deprecated; it returns a deprecated
\* one only when every candidate is deprecated; and it is ambiguous only by
\* two candidates that are not deprecated.
PrefersNonDeprecated ==
    \A m \in Modules, var \in Vars :
        Unresolved(bindings, m, var) =>
            LET r == jl_get_binding(NewCtx(bindings), m, var)
                live == LiveCands(bindings, m, var)
                dead == DeadCands(bindings, m, var)
            IN  /\ live # {} /\ ~Ambiguous(r, m, var) => r.b \in live
                /\ r.b # NULL /\ bindings[r.b].deprecated # 0 => live = {}
                /\ live = {} /\ dead # {} => r.b \in dead
                /\ live = {} \/ (\E b \in live : \A b2 \in live : eq_bindings(bindings, b, b2))
                      => ~Ambiguous(r, m, var)

\* the deprecated candidate comes from the using added first, so the search
\* visits it after the candidate that is not deprecated
PrefersNonDeprecatedWitness ==
    \E m \in Modules, var \in Vars :
        /\ Unresolved(bindings, m, var)
        /\ Len(usings[m]) = 2
        /\ CandidateIdx(bindings, m, var) = {1, 2}
        /\ Live(bindings, m, var) = {2}
        /\ jl_get_binding(NewCtx(bindings), m, var).b = Candidate(bindings, m, var, 2)

\* the deprecated candidate comes from the using added last
PrefersNonDeprecatedWitness2 ==
    \E m \in Modules, var \in Vars :
        /\ Unresolved(bindings, m, var)
        /\ Len(usings[m]) = 2
        /\ CandidateIdx(bindings, m, var) = {1, 2}
        /\ Live(bindings, m, var) = {1}
        /\ jl_get_binding(NewCtx(bindings), m, var).b = Candidate(bindings, m, var, 1)

\* the using search of m for var, as jl_resolve_owner starts it
UsingSearch(S, m, var) ==
    using_resolve_binding(JL_LOCK(NewCtx(S), m), m, var, Top(m, var), TRUE,
                          Len(usings[m]), NULL, NULLMOD)

\* the candidates are distinct cells, none deprecated, equal only as constants
\* bound to the identical value
EqualConstants(S, m, var) ==
    LET idx == CandidateIdx(S, m, var)
    IN  /\ idx = Live(S, m, var)
        /\ \E i \in idx, j \in idx : i # j
        /\ \A i \in idx, j \in idx :
              i # j => LET a == Candidate(S, m, var, i)
                           b == Candidate(S, m, var, j)
                       IN  /\ a # b /\ S[a].owner # S[b].owner
                           /\ S[a].constp /\ S[b].constp
                           /\ S[a].value # NULL /\ S[a].value = S[b].value

MaxIdx(I) == CHOOSE i \in I : \A j \in I : j <= i
MinIdx(I) == CHOOSE i \in I : \A j \in I : i <= j

\* with one exporter the search returns its binding, with two candidates that
\* clash it is ambiguous
OneExporterOrClash(m, var) ==
    LET idx == CandidateIdx(bindings, m, var)
        r == UsingSearch(bindings, m, var)
    IN  /\ (\E i \in idx : idx = {i}) =>
              /\ r.b = Candidate(bindings, m, var, MaxIdx(idx))
              /\ r.from = usings[m][MaxIdx(idx)]
        /\ Clash(bindings, m, var) =>
              r.b = NULL /\ <<"must be qualified", m, var>> \in r.C.warn

\* C6 as claimed: one exporter gives its binding, clashing candidates give an
\* ambiguity, and among candidates that are equal constants the search
\* returns the binding, and records the module, of the using added last.
LastAddedWins ==
    \A m \in Modules, var \in Vars :
        Unresolved(bindings, m, var) =>
            LET idx == CandidateIdx(bindings, m, var)
                r == UsingSearch(bindings, m, var)
            IN  /\ OneExporterOrClash(m, var)
                /\ EqualConstants(bindings, m, var) =>
                      /\ r.b = Candidate(bindings, m, var, MaxIdx(idx))
                      /\ r.from = usings[m][MaxIdx(idx)]

\* C6 amended: one exporter gives its binding, clashing candidates give an
\* ambiguity, and among candidates that are equal constants the search
\* returns the binding, and records the module, of the using added first.
EqualConstantsFirstAdded ==
    \A m \in Modules, var \in Vars :
        Unresolved(bindings, m, var) =>
            LET idx == CandidateIdx(bindings, m, var)
                r == UsingSearch(bindings, m, var)
            IN  /\ OneExporterOrClash(m, var)
                /\ EqualConstants(bindings, m, var) =>
                      /\ r.b = Candidate(bindings, m, var, MinIdx(idx))
                      /\ r.from = usings[m][MinIdx(idx)]

\* a search over two usings whose candidates are equal constants
EqualConstantsFirstAddedWitness ==
    \E m \in Modules, var \in Vars :
        /\ Unresolved(bindings, m, var)
        /\ EqualConstants(bindings, m, var)
        /\ UsingSearch(bindings, m, var).from = usings[m][1]

\* what C7 says of the remembered result of a using search
Pinned ==
    /\ Foreign(bindings, pinned.c)
    /\ bindings[pinned.c].owner = pinned.b
    /\ jl_get_binding(NewCtx(bindings), pinned.c[1], pinned.c[2]).b = pinned.b

\* C7 as claimed: once get_binding(M, v) has returned a binding b found by the
\* using search, whatever b is, M.v is an alias of b and get_binding(M, v)
\* returns b after every later module_using and module_export.
ResolutionPermanent == pinned.c # NULL => Pinned

\* C7 amended: the same, unless b is deprecated and bound to nothing.
ResolutionPermanentUnlessSkipped == pinned.c # NULL /\ ~pinned.skip => Pinned

\* a deprecated binding stays the result after a using that exports another
\* binding of the same name was added
ResolutionPermanentUnlessSkippedWitness ==
    /\ pinned.c # NULL /\ ~pinned.skip
    /\ bindings[pinned.b].deprecated # 0
    /\ \E i \in 1..Len(usings[pinned.c[1]]) :
          LET c == <<usings[pinned.c[1]][i], pinned.c[2]>>
          IN  /\ SelfOwned(bindings, c) /\ bindings[c].exportp
              /\ bindings[c].deprecated = 0 /\ c # pinned.b

\* ---------------------------------------------------------- module locks

\* t1 waits for a lock t2 holds and t2 for a lock t1 holds
LockCycle(t1, t2) ==
    /\ t1 # t2
    /\ Waiting(t1) /\ Holds(t2, LockOf(stack[t1][Len(stack[t1])]))
    /\ Waiting(t2) /\ Holds(t1, LockOf(stack[t2][Len(stack[t2])]))

\* C3: no state is reachable in which each of two threads running
\* get_binding, binding_owner or module_using holds one module's lock and
\* waits for the lock the other holds.
NoLockCycle == \A t1 \in Threads, t2 \in Threads : ~LockCycle(t1, t2)

\* ------------------------------------------------------------------ usings
NoDuplicate(us) == \A i \in 1..Len(us), j \in 1..Len(us) : us[i] = us[j] => i = j

\* a thread is inside jl_module_using(to, from)
InModuleUsing(to, from) ==
    \E t \in Threads :
        /\ ~Idle(t)
        /\ stack[t][Len(stack[t])].fn = "using"
        /\ stack[t][Len(stack[t])].m = to
        /\ stack[t][Len(stack[t])].from = from

\* a step leaves to->usings alone, or a thread inside jl_module_using(to, from)
\* with from not yet in it appends from
UsingsStep ==
    \A to \in Modules :
        \/ usings'[to] = usings[to]
        \/ \E from \in Modules :
              /\ InModuleUsing(to, from)
              /\ from # to
              /\ ~InUsings(usings[to], from)
              /\ usings'[to] = Append(usings[to], from)

\* C11: under every interleaving of two threads, U.usings holds no module
\* twice and never U; a module_using(U, F) with F already in U.usings leaves
\* the list as it is, and one with F new appends F, keeping the earlier
\* entries in their order.
UsingsAppendOnce ==
    /\ [](\A m \in Modules : NoDuplicate(usings[m]) /\ ~InUsings(usings[m], m))
    /\ [][UsingsStep]_vars

\* a second module_using(to, from) is under way while from is in to->usings
UsingsAppendOnceWitness ==
    \E to \in TModules, from \in TModules :
        /\ InModuleUsing(to, from)
        /\ InUsings(usings[to], from)
        /\ Len(usings[to]) = 2

\* ----------------------------------------------------------------- imports
\* C12: when to's cell for the name exists, is not the imported binding itself
\* and is eq_bindings to it, jl_module_import (explicit) and jl_module_use
\* (not explicit) leave the cell's owner alone, set its imported flag when
\* explicit, and never clear an imported flag that was set.
ImportedOnlyUpgraded ==
    \A to \in Modules, from \in Modules, s \in Vars, explici \in BOOLEAN :
        LET c == <<to, s>>
            r == jl_get_binding(NewCtx(bindings), from, s)
            C == import_or_use(NewCtx(bindings), to, from, s, explici)
        IN  (/\ r.b # NULL
             /\ Present(r.C.S, c)
             /\ c # r.b
             /\ eq_bindings(r.C.S, c, r.b))
            => /\ C.S[c].owner = r.C.S[c].owner
               /\ C.S[c].imported = (r.C.S[c].imported \/ explici)

\* the cell aliases a foreign owner other than b, or its module owns it and it
\* has a value or is a constant
ConflictsWith(S, c, b) ==
    \/ Foreign(S, c) /\ S[c].owner # b
    \/ SelfOwned(S, c) /\ (S[c].value # NULL \/ S[c].constp)

Warned(C, to, s) == \E w \in C.warn : w[2] = to /\ w[3] = s

\* what C13 says of module_import_(to, from, b, s, s, explici) run from the
\* tables pre to the context C, for all cells but those that conflict
ImportFrame(pre, C, to, s, b, explici) ==
    LET c == <<to, s>>
    IN  /\ \A d \in Cells \ {c} : C.S[d] = pre[d]
        /\ b = NULL => C.S = pre
        /\ C.S[c] # pre[c] /\ (~Present(pre, c) \/ C.S[c].owner # pre[c].owner) =>
              /\ ~Present(pre, c) \/ (pre[c].owner = NULL /\ pre[c].value = NULL)
              /\ C.S[c].owner = b
              /\ C.S[c].imported = explici

AssignVals ==
    {<<"Int64", "1">>, <<"Int64", "2">>, <<"String", "s">>, <<"DataType", "Int64">>,
     ModuleValue("A")}

\* set_const on a fresh name binds a constant that get_global reads back
FirstSetConst(m, var, x) ==
    LET C == jl_set_const(NewCtx(bindings), m, var, x)
        b == C.S[<<m, var>>]
        g == jl_get_global(C, m, var)
    IN  /\ C.err = ""
        /\ b.owner = <<m, var>> /\ b.constp /\ b.value = x
        /\ g.v = x /\ g.C.err = ""

\* C14 as claimed: after set_const(M, v, x) on a fresh name, get_global(M, v)
\* is x; a second set_const with an equal value succeeds and changes nothing,
\* with an unequal value of the same type that is no type it warns and does
\* not raise, and with a type or a value of another type it raises
\* ConstantRedefinition.
SecondSetConstGraded ==
    \A m \in Modules, var \in Vars, x \in AssignVals, x2 \in AssignVals :
        Unresolved(bindings, m, var) =>
            LET C == jl_set_const(NewCtx(bindings), m, var, x)
                C2 == jl_set_const(C, m, var, x2)
            IN  /\ FirstSetConst(m, var, x)
                /\ IF jl_egal(x2, x) THEN C2.err = "" /\ C2.S = C.S /\ C2.warn = C.warn
                   ELSE IF jl_typeof(x2) = jl_typeof(x) /\ ~jl_is_type(x2)
                   THEN C2.err = "" /\ C2.warn # C.warn
                   ELSE C2.err = "ConstantRedefinition"

\* C14 amended: after set_const(M, v, x) on a fresh name, get_global(M, v) is
\* x; a second set_const, whatever its value, raises ConstantRedefinition and
\* leaves every binding unchanged.
SecondSetConstRaises ==
    \A m \in Modules, var \in Vars, x \in AssignVals, x2 \in AssignVals :
        Unresolved(bindings, m, var) =>
            LET C == jl_set_const(NewCtx(bindings), m, var, x)
                C2 == jl_set_const(C, m, var, x2)
            IN  /\ FirstSetConst(m, var, x)
                /\ C2.err = "ConstantRedefinition" /\ C2.S = C.S /\ C2.warn = C.warn

\* a fresh name beside a constant that set_const has bound, and an unowned
\* placeholder as a fresh name
SecondSetConstRaisesWitness ==
    \E m \in Modules, m2 \in Modules, var \in Vars :
        /\ Present(bindings, <<m, var>>) /\ bindings[<<m, var>>].owner = NULL
        /\ SelfOwned(bindings, <<m2, var>>) /\ bindings[<<m2, var>>].constp
        /\ bindings[<<m2, var>>].value # NULL

\* the declared-type check of jl_checked_assignment lets rhs through
DeclaredTypeAdmits(bd, rhs) ==
    bd.ty = NULL \/ bd.ty = jl_any_type \/ jl_typeof(rhs) = bd.ty \/ jl_isa(rhs, bd.ty)

\* C15: checked_assignment on a constant stores rhs when there is no value,
\* changes nothing when rhs equals the value, raises ConstantRedefinition and
\* keeps the value when rhs is of another type, a type or a module, and
\* otherwise warns and stores rhs; on a binding that is no constant it stores
\* rhs whenever the declared type admits it.
CheckedAssignmentGraded ==
    \A c \in Cells, rhs \in AssignVals :
        Present(bindings, c) =>
            LET bd == bindings[c]
                C == jl_checked_assignment(NewCtx(bindings), c, c[1], c[2], rhs)
                new == C.S[c].value
            IN  /\ \A d \in Cells \ {c} : C.S[d] = bindings[d]
                /\ DeclaredTypeAdmits(bd, rhs)
                /\ IF ~bd.constp \/ bd.value = NULL
                   THEN C.err = "" /\ new = rhs /\ C.warn = {}
                   ELSE IF rhs = bd.value
                   THEN C.err = "" /\ new = bd.value /\ C.warn = {}
                   ELSE IF \/ jl_typeof(rhs) # jl_typeof(bd.value)
                           \/ jl_is_type(rhs) \/ jl_is_module(rhs)
                   THEN C.err = "ConstantRedefinition" /\ new = bd.value
                   ELSE C.err = "" /\ new = rhs /\ C.warn # {}

\* a constant bound to an integer, a constant without a value and a binding
\* that is no constant and has a value
CheckedAssignmentGradedWitness ==
    \E c \in Cells, d \in Cells :
        /\ Present(bindings, c) /\ bindings[c].constp
        /\ bindings[c].value = <<"Int64", "1">>
        /\ Present(bindings, d) /\ bindings[d].constp /\ bindings[d].value = NULL

\* jl_declare_constant on the cell c does what C16 says
DeclareConstantExact(c) ==
    LET C == jl_declare_constant(NewCtx(bindings), c, c[1], c[2])
    IN  IF SelfOwned(bindings, c) /\ (bindings[c].value = NULL \/ bindings[c].constp)
        THEN C.err = "" /\ C.S = [bindings EXCEPT ![c].constp = TRUE]
        ELSE C.err = "ConstantRedeclaration" /\ C.S = bindings

\* a constant stays in its table and stays a constant
ConstpStays ==
    \A c \in Cells :
        Present(bindings, c) /\ bindings[c].constp =>
            Present(bindings', c) /\ bindings'[c].constp

\* C16: declare_constant sets constp exactly when the binding is owned by
\* itself and has no value or is a constant already, and otherwise raises
\* ConstantRedeclaration changing nothing; no operation clears constp.
DeclareConstantMonotone ==
    /\ [](\A c \in Cells : Present(bindings, c) => DeclareConstantExact(c))
    /\ [][ConstpStays]_vars

\* a declared constant without a value, beside a cell that is not its own
\* owner, on which the declaration raises
DeclareConstantMonotoneWitness ==
    \E c \in Cells, d \in Cells :
        /\ SelfOwned(bindings, c) /\ bindings[c].constp /\ bindings[c].value = NULL
        /\ Present(bindings, d) /\ ~SelfOwned(bindings, d)
        /\ jl_declare_constant(NewCtx(bindings), d, d[1], d[2]).err = "ConstantRedeclaration"

\* the table after clear_implicit_imports(m), as C17 describes it
ClearedTable(m) ==
    [c \in Cells |->
        IF /\ c[1] = m
           /\ Present(bindings, c)
           /\ ~SelfOwned(bindings, c)
           /\ ~bindings[c].imported
        THEN HT_NOTFOUND
        ELSE bindings[c]]

\* C17: clear_implicit_imports(M) removes from M's table exactly the cells
\* that are neither their own owner nor flagged imported (unowned exported
\* placeholders among them), keeps M's own and explicitly imported cells as
\* they are, and changes no other module's table and no usings list.
ClearRemovesImplicit ==
    /\ [](\A m \in Modules :
            jl_clear_implicit_imports(NewCtx(bindings), m).S = ClearedTable(m))
    /\ [][usings' # usings => \A m \in Modules : ~AClearImplicitImports(m)]_vars

\* an alias bound by a using search in one module, an explicit import in
\* another, both of a binding their third module owns
ClearRemovesImplicitWitness ==
    \E c \in Cells, d \in Cells, e \in Cells :
        /\ c[1] # d[1]
        /\ SelfOwned(bindings, e)
        /\ Present(bindings, c) /\ bindings[c].owner = e /\ c # e
        /\ ~bindings[c].imported
        /\ Present(bindings, d) /\ bindings[d].owner = e /\ d # e
        /\ bindings[d].imported
        /\ jl_clear_implicit_imports(NewCtx(bindings), c[1]).S[c] = HT_NOTFOUND
        /\ jl_clear_implicit_imports(NewCtx(bindings), d[1]).S[d] = bindings[d]

\* the inherited options, their getters and their setters by name
Inherited == {"optlevel", "compile", "infer", "max_methods"}
OptionFields == Inherited \cup {"nospecialize"}

OptionGet(f, O, m) ==
    CASE f = "optlevel" -> jl_get_module_optlevel(O, m)
      [] f = "compile" -> jl_get_module_compile(O, m)
      [] f = "infer" -> jl_get_module_infer(O, m)
      [] f = "max_methods" -> jl_get_module_max_methods(O, m)

OptionSet(f, O, m, v) ==
    CASE f = "optlevel" -> jl_set_module_optlevel(O, m, v)
      [] f = "compile" -> jl_set_module_compile(O, m, v)
      [] f = "infer" -> jl_set_module_infer(O, m, v)
      [] f = "max_methods" -> jl_set_module_max_methods(O, m, v)

\* the walk ends at the base module and at a module that is its own parent
WalkEnds(m) == m = jl_base_module \/ parent[m] = m

\* the value of field f that module m reads: its own when own(_) says the
\* value counts, and otherwise that of the nearest ancestor, up to the module
\* where the walk ends
NearestValue(f, m, own(_)) ==
    LET walk[n \in OModules] ==
            IF own(options[n][f]) \/ WalkEnds(n)
            THEN options[n][f]
            ELSE walk[parent[n]]
    IN  walk[m]

NonNegative(v) == v >= 0
NotUnset(v) == v # -1

\* a setter changes the named field of the named module, and nospecialize of
\* that module when infer is set to 0, and nothing else
SetterFrame ==
    \A f \in Inherited, self \in OModules, v \in OptVals \cup {0} :
        LET O2 == OptionSet(f, options, self, v)
        IN  \A m \in OModules, g \in OptionFields :
                O2[m][g] =
                    IF m = self /\ g = f THEN v
                    ELSE IF m = self /\ g = "nospecialize" /\ f = "infer" /\ v = 0
                    THEN -1
                    ELSE options[m][g]

\* with P at 3, C reads 3 while unset, 1 once set to 1, 3 once reset to -1
ParentExample ==
    \A f \in Inherited :
        options["P"][f] = 3 /\ options["C"][f] = -1 =>
            LET O1 == OptionSet(f, options, "C", 1)
                O2 == OptionSet(f, O1, "C", -1)
            IN  /\ OptionGet(f, options, "C") = 3
                /\ OptionGet(f, O1, "C") = 1
                /\ OptionGet(f, O2, "C") = 3

\* C18 as stated: a getter returns the module's own value when that is
\* non-negative and otherwise the nearest ancestor's, up to the base module
\* or a root; a setter changes the named field only.
OptionReadsNonNegative ==
    /\ \A f \in Inherited, m \in OModules :
          OptionGet(f, options, m) = NearestValue(f, m, NonNegative)
    /\ ParentExample
    /\ SetterFrame

\* C18: a getter returns the module's own value when that is not -1 and
\* otherwise the value of the nearest ancestor whose value is not -1, up to
\* the base module or a root; with P at 3, C reads 3 while unset, 1 once set
\* to 1 and 3 again once reset to -1; a setter changes only the named field
\* of the named module (infer = 0 also sets nospecialize to -1).
OptionReadsNotUnset ==
    /\ \A f \in Inherited, m \in OModules :
          OptionGet(f, options, m) = NearestValue(f, m, NotUnset)
    /\ ParentExample
    /\ SetterFrame

\* C has a negative level other than -1 below P at 3 and reads its own; B is
\* unset below an unset Base and does not read Main's level
OptionReadsNotUnsetWitness ==
    /\ options["P"].optlevel = 3 /\ options["C"].optlevel = -2
    /\ jl_get_module_optlevel(options, "C") = -2
    /\ options["Main"].optlevel = 3 /\ options["Base"].optlevel = -1
    /\ options["B"].optlevel = -1
    /\ jl_get_module_optlevel(options, "B") = -1
    /\ options["C"].infer = 0 /\ options["C"].nospecialize = -1

\* C19: every constructed module has build_id.lo other than 0, and two
\* modules constructed on the same clock value have different build_id.lo.
BuildIdUnique ==
    \A i \in 1..Len(build.ids) :
        /\ build.ids[i].lo # 0
        /\ \A j \in 1..Len(build.ids) :
              i < j /\ build.ids[i].h = build.ids[j].h =>
                  build.ids[i].lo # build.ids[j].lo

\* the same failure with one thread only: on the clock value where the sum
\* wraps to 0, the module that is bumped to 1 and the next one agree
BuildIdUniqueSequential ==
    (\A t \in Threads : build.th[t].pc = "idle" /\ build.mcounter = Len(build.ids))
        => BuildIdUnique

\* the rule of module_names: what is listed for (all, imported)
Listed(m, s, all, imported) ==
    /\ Present(bindings, <<m, s>>)
    /\ \/ bindings[<<m, s>>].exportp
       \/ bindings[<<m, s>>].imported /\ imported
       \/ /\ SelfOwned(bindings, <<m, s>>)
          /\ ~bindings[<<m, s>>].imported
          /\ (all \/ m = jl_main_module)
    /\ \/ all
       \/ bindings[<<m, s>>].deprecated = 0 /\ ~hidden(s)

NamesRule ==
    \A m \in Modules, all \in BOOLEAN, imported \in BOOLEAN, s \in Names :
        s \in jl_module_names(NewCtx(bindings), m, all, imported).a
            <=> Listed(m, s, all, imported)

\* the names of m after module_export(m, s)
NamesAfterExport(m, s, all) ==
    jl_module_names(jl_module_export(NewCtx(bindings), m, s), m, all, FALSE).a

\* C20 as stated: after module_export(M, s) the name s is among
\* module_names(M, all=false, imported=false), for every s; and the rule of
\* module_names holds.
ExportedIsListed ==
    /\ \A m \in Modules, s \in Names : s \in NamesAfterExport(m, s, FALSE)
    /\ NamesRule

\* C20: after module_export(M, s) the name s is among module_names(M,
\* all=true, imported=false), and among module_names(M, all=false,
\* imported=false) exactly when the binding is not deprecated and s does not
\* start with '#'; and the rule of module_names holds.
ExportedIsListedUnlessHidden ==
    /\ \A m \in Modules, s \in Names :
          /\ s \in NamesAfterExport(m, s, TRUE)
          /\ s \in NamesAfterExport(m, s, FALSE)
                <=> ~hidden(s) /\ (Present(bindings, <<m, s>>)
                                      => bindings[<<m, s>>].deprecated = 0)
    /\ NamesRule

\* a module that exports its deprecated binding and a hidden name and lists
\* neither, beside a module that exports a binding and lists it
ExportedIsListedUnlessHiddenWitness ==
    \E m \in Modules, n \in Modules, s \in Vars, h \in HiddenNames :
        /\ Present(bindings, <<m, s>>) /\ bindings[<<m, s>>].exportp
        /\ bindings[<<m, s>>].deprecated # 0
        /\ Present(bindings, <<m, h>>) /\ bindings[<<m, h>>].exportp
        /\ Present(bindings, <<n, s>>) /\ bindings[<<n, s>>].exportp
        /\ bindings[<<n, s>>].deprecated = 0
        /\ s \notin jl_module_names(NewCtx(bindings), m, FALSE, FALSE).a
        /\ h \notin jl_module_names(NewCtx(bindings), m, FALSE, FALSE).a
        /\ s \in jl_module_names(NewCtx(bindings), n, FALSE, FALSE).a

\* what an ambiguous get_binding(m, var) leaves in m's table, and what the
\* next get_binding(m, var) returns
AfterAmbiguous(m, var, P(_, _)) ==
    LET r == jl_get_binding(NewCtx(bindings), m, var)
        r2 == jl_get_binding(NewCtx(r.C.S), m, var)
    IN  Ambiguous(r, m, var) => Present(r.C.S, <<m, var>>) /\ P(r, r2)

\* C21 as stated: the cell an ambiguous get_binding(M, v) leaves has no
\* owner, binding_resolved_p(M, v) is false, and the next get_binding(M, v)
\* returns null again.
AmbiguityMarkerUnresolved ==
    \A m \in Modules, var \in Vars :
        LET P(r, r2) ==
                /\ r.C.S[<<m, var>>].owner = NULL
                /\ ~jl_binding_resolved_p(r.C.S, m, var)
                /\ r2.b = NULL
        IN  AfterAmbiguous(m, var, P)

\* C21: the cell an ambiguous get_binding(M, v) leaves is its own owner and
\* has no value, binding_resolved_p(M, v) is true, and the next
\* get_binding(M, v) returns that cell, prints no warning and changes nothing.
AmbiguityMarkerSelfOwned ==
    \A m \in Modules, var \in Vars :
        LET P(r, r2) ==
                /\ r.C.S[<<m, var>>].owner = <<m, var>>
                /\ r.C.S[<<m, var>>].value = NULL
                /\ jl_binding_resolved_p(r.C.S, m, var)
                /\ r2.b = <<m, var>>
                /\ r2.C.warn = {} /\ r2.C.err = ""
                /\ r2.C.S = r.C.S
        IN  AfterAmbiguous(m, var, P)

\* a name that two usings of m export with different bindings, before any
\* search for it in m
AmbiguityMarkerSelfOwnedWitness ==
    \E m \in Modules, var \in Vars :
        /\ Unresolved(bindings, m, var)
        /\ Clash(bindings, m, var)
        /\ Ambiguous(jl_get_binding(NewCtx(bindings), m, var), m, var)

\* thread t stands at the JL_LOCK of the module_import_ that ends its
\* get_binding, with the binding its using search found in the frame
Importing(t) ==
    /\ Len(stack[t]) = 1
    /\ stack[t][1].fn = "resolve"
    /\ stack[t][1].pc = "lock_import"

\* C22: when a get_binding(M, v) that found b through the using search
\* returns, M's cell for v is an alias whose owner is b, whatever another
\* thread did to M.v meanwhile.
ReturnedIsAlias ==
    [][\A t \in Threads :
          Importing(t) /\ stack'[t] = <<>> =>
              LET f == stack[t][1]
              IN  /\ Present(bindings', <<f.m, f.var>>)
                  /\ bindings'[<<f.m, f.var>>].owner = f.b]_vars

\* C23: every write to a cell's owner, constp, exportp, imported or
\* deprecated field, in get_binding_wr, get_binding_for_method_def,
\* module_import, module_export, declare_constant, set_const and
\* deprecate_binding, is made while the thread holds the lock of the cell's
\* module.
WritesUnderLock ==
    \A m \in Modules, var \in Vars :
        LET C == NewCtx(bindings)
        IN  /\ \A alloc \in BOOLEAN : jl_get_binding_wr(C, m, var, alloc).C.bare = {}
            /\ \A ub \in BOOLEAN :
                  jl_get_binding_for_method_def(C, m, var, ub).C.bare = {}
            /\ \A from \in Modules, explici \in BOOLEAN :
                  import_or_use(C, m, from, var, explici).bare = {}
            /\ jl_module_export(C, m, var).bare = {}
            /\ Present(bindings, <<m, var>>) =>
                  jl_declare_constant(C, <<m, var>>, m, var).bare = {}
            /\ \A val \in AVals : jl_set_const(C, m, var, val).bare = {}
            /\ \A flag \in 0..1 : jl_deprecate_binding(C, m, var, flag).bare = {}

\* the threads whose set_const is on the cell c, and those whose call returned
Callers(c) == {t \in Threads : ~Idle(t) /\ <<stack[t][1].m, stack[t][1].var>> = c}
Winners(c) == {t \in Callers(c) : stack[t][1].pc = "returned"}

\* C24: of the concurrent set_const calls on one unbound name at most one
\* returns; once all have ended every other call has raised
\* ConstantRedefinition, the binding is a constant and its value is that of
\* the call that returned.
OneSetConstWins ==
    \A c \in Cells :
        /\ Cardinality(Winners(c)) <= 1
        /\ (Callers(c) # {} /\ \A t \in Callers(c) : Finished(stack[t][1])) =>
              /\ \A t \in Callers(c) \ Winners(c) :
                    stack[t][1].err = "ConstantRedefinition"
              /\ bindings[c].constp
              /\ \A t \in Winners(c) : bindings[c].value = stack[t][1].val

\* both threads called set_const on the same name with different values; one
\* returned and the other raised
OneSetConstWinsWitness ==
    \E c \in Cells :
        /\ Callers(c) = Threads
        /\ stack["t1"][1].val # stack["t2"][1].val
        /\ \A t \in Threads : Finished(stack[t][1])
        /\ Cardinality(Winners(c)) = 1
        /\ \E t \in Threads : stack[t][1].constp

\* C25: binding_owner(M, v) inserts or changes no cell of any module's
\* table, prints no ambiguity warning, and for a name that is not ambiguous
\* returns the binding the next get_binding(M, v) returns.
BindingOwnerPure ==
    \A m \in Modules, var \in Vars :
        LET r == jl_binding_owner(NewCtx(bindings), m, var)
            g == jl_get_binding(NewCtx(r.C.S), m, var)
        IN  /\ r.C.S = bindings
            /\ \A w \in r.C.warn : w[1] # "must be qualified"
            /\ ~Ambiguous(g, m, var) => r.b = g.b

\* C26: every operation that takes a module lock has released every lock it
\* took when it returns or raises, so that a thread outside the operations
\* holds no lock.
LockBalance ==
    \A m \in Modules, var \in Vars :
        LET C == NewCtx(bindings)
        IN  /\ \A alloc \in BOOLEAN : NoLocks(jl_get_binding_wr(C, m, var, alloc).C)
            /\ \A ub \in BOOLEAN : NoLocks(jl_get_binding_for_method_def(C, m, var, ub).C)
            /\ NoLocks(jl_get_binding(C, m, var).C)
            /\ NoLocks(jl_binding_owner(C, m, var).C)
            /\ \A from \in Modules, explici \in BOOLEAN :
                  NoLocks(import_or_use(C, m, from, var, explici))
            /\ \A from \in Modules : NoLocks(jl_module_using(C, m, from).C)
            /\ NoLocks(jl_module_export(C, m, var))
            /\ \A all \in BOOLEAN, imported \in BOOLEAN :
                  NoLocks(jl_module_names(C, m, all, imported).C)
            /\ NoLocks(jl_clear_implicit_imports(C, m))

\* C27: while a cell stays in its table, an owner that is set never changes.
OwnerPermanent ==
    [][\A c \in Cells :
          (Present(bindings, c) /\ Present(bindings', c) /\ bindings[c].owner # NULL)
              => bindings'[c].owner = bindings[c].owner]_vars

\* C28: every cell that aliases a foreign owner has an owner with a value, so
\* the assertion of jl_get_binding_for_method_def never fails.
ForeignOwnerHasValue ==
    /\ \A c \in Cells :
          (Present(bindings, c) /\ bindings[c].owner # NULL /\ bindings[c].owner # c)
              => bindings[bindings[c].owner].value # NULL
    /\ \A m \in Modules, var \in Vars, ub \in BOOLEAN :
          "assert262" \notin jl_get_binding_for_method_def(NewCtx(bindings), m, var, ub).C.fail

====
